---- MODULE Spec2Model ----
(***************************************************************************)
(* A model of the concurrent keyspace engine of the EchoVault server:      *)
(* the per-key RW locks and the key-creation lock (keyspace.go), the       *)
(* memory adjustment that evicts keys, the set-command handlers that run   *)
(* on top of them, and the append-only log store (Write, Sync, Restore).   *)
(*                                                                         *)
(* Granularity.  One step of a handler thread is one access to shared      *)
(* state (the keyLocks map, a key's RWMutex, the store map, the creation   *)
(* lock) together with the local computation that follows it.  A polling   *)
(* loop (KeyLock, KeyRLock) is one step that is enabled when the poll      *)
(* would leave the loop; a failed TryLock changes nothing.                 *)
(***************************************************************************)
EXTENDS Integers, Sequences, FiniteSets, TLC

\* ------------------------------------------------------------------------
\* Bounds of the model

Threads == {"t1", "t2"}

Keys == {"a", "b"}

Members == {"x", "y"}

\* The longest list of source keys a multi-key set command names.
MaxSrcKeys == 2

NoKey == "-"

\* The most commands a connection sends before the restart.
MaxCmds == 2

\* ------------------------------------------------------------------------
\* State

VARIABLES
    keyLocks,         \* server.keyLocks: key -> its RWMutex, or no entry
    keyCreationLock,  \* server.keyCreationLock: the thread holding it, or NoThread
    store,            \* server.store: key -> value, or no entry
    config,           \* server.Config: MaxMemory > 0, EvictionPolicy
    th,               \* each handler thread: its position and its locals
    held,             \* per thread and key: lock acquisitions not yet released
    ctxDone,          \* per thread: its context has been cancelled
    fatal,            \* the Go runtime has stopped the process (fatal error, panic)
    rw,               \* AppendStore.rw: the bytes of the log file
    synced,           \* how many bytes of rw the last rw.Sync() made durable
    mut,              \* AppendStore.mut: the goroutine holding it, or NoThread
    strategy,         \* AppendStore.strategy
    aofpc,            \* position of the dispatching goroutine and of the syncer
    pending,          \* the argument of the Write call in progress, and its caller
    issued,           \* the commands the connection has sent so far
    written,          \* the records Write has appended so far
    hashes,           \* server.store of the serving process (hash keys)
    restored,         \* server.store of the restarted process
    commands,         \* Restore's local list, the part not yet dispatched
    calls,            \* the handleCommand calls Restore has made
    cut,              \* the restart cut the final record of the log short
    rwBefore,         \* the log as it was when Restore began
    keyExpiry,        \* server.keyExpiry: key -> expiry time, or no entry
    lfuCache,         \* server.lfuCache: its mutex and the access counts
    lruCache,         \* server.lruCache: its mutex and the keys by recency
    now,              \* the clock, in eviction intervals
    swept,            \* the TTL sweeper has run in the current interval
    accessed,         \* the keys in the order of their last access
    aclUsers,         \* acl.Users: username -> user
    aclConnections,   \* acl.Connections: connection -> Authenticated, User
    requirePass,      \* acl.Config.RequirePass
    authorized,       \* the latest AuthorizeConnection call and what it returned
    authed,           \* the connections that completed a successful AUTH
    auth,             \* the latest AuthenticateConnection call and its error
    aclNames,         \* acl.Users as a list: the usernames in their order
    aclCall,          \* the latest SetUser or DeleteUser call
    stateCopyInProgress,      \* server.StateCopyInProgress
    stateMutationInProgress,  \* server.StateMutationInProgress
    rewriteAOFInProgress,     \* server.RewriteAOFInProgress
    snapshotInProgress,       \* server.SnapshotInProgress
    bg,               \* the background goroutines: position, GetState's data
    reply,            \* handleConnection: the reply being written to the connection
    util              \* a call of a function of package utils: argument and result

ksVars == <<keyLocks, keyCreationLock, store, config, th, held, ctxDone, fatal>>

aofVars == <<rw, synced, mut, strategy, aofpc, pending, issued, written, hashes,
             restored, commands, calls, cut, rwBefore>>

\* The TTL index, the two eviction caches with their mutexes, the clock in
\* units of one eviction_interval, and the keys in the order of their last
\* access through GetValue, SetValue or a touching SetKeyExpiry.
evVars == <<keyExpiry, lfuCache, lruCache, now, swept, accessed>>

aclVars == <<aclUsers, aclConnections, requirePass, authorized, authed,
             auth, aclNames, aclCall>>

\* The four atomic flags of the server and the goroutines that copy the
\* state: the snapshots and the AOF rewrites.
stVars == <<stateCopyInProgress, stateMutationInProgress,
            rewriteAOFInProgress, snapshotInProgress, bg>>

\* A connection's reply on its way out, and a call of ParseMemory or
\* AdaptType with what it returned.
utVars == <<reply, util>>

vars == <<keyLocks, keyCreationLock, store, config, th, held, ctxDone, fatal,
          rw, synced, mut, strategy, aofpc, pending, issued, written, hashes,
          restored, commands, calls, cut, rwBefore,
          keyExpiry, lfuCache, lruCache, now, swept, accessed,
          aclUsers, aclConnections, requirePass, authorized, authed, auth,
          aclNames, aclCall,
          stateCopyInProgress, stateMutationInProgress,
          rewriteAOFInProgress, snapshotInProgress, bg, reply, util>>

NoThread == "none"

\* A key's entry in server.keyLocks.  exists = FALSE is the nil entry.
\* w: the mutex is write-locked; r: the number of read locks held on it.
NoLock == [exists |-> FALSE, w |-> FALSE, r |-> 0]

NewLockedMutex == [exists |-> TRUE, w |-> TRUE, r |-> 0]

\* A value of the store.  present = FALSE is the missing entry (Go's nil
\* interface).  obj names the *Set object: handlers keep the pointer they
\* read and change the set in place.
NoValue == [present |-> FALSE, isSet |-> FALSE, members |-> {}, obj |-> "-"]

SetValueOf(ms, o) == [present |-> TRUE, isSet |-> TRUE, members |-> ms, obj |-> o]

StringValue == [present |-> TRUE, isSet |-> FALSE, members |-> {}, obj |-> "-"]

NoCmd == [op |-> "-", dst |-> NoKey, srcs |-> <<>>, mem |-> {}, at |-> 0]

\* The frame of the keyspace call a thread is in (KeyLock, KeyRLock,
\* CreateKeyAndLock, GetValue, SetValue): the key, the value passed or
\* returned, where the handler goes on, the call's result, and (over) what
\* the call's latest test of the heap against MaxMemory answered.
NoSub == [key |-> NoKey, val |-> NoValue, ret |-> "-", err |-> FALSE,
          isGet |-> FALSE, victim |-> NoKey, evicting |-> FALSE, over |-> FALSE]

\* An entry of server.keyExpiry.  has = FALSE is the missing entry; at = 0
\* is the zero time.Time{}, which RemoveKeyExpiry and a restore of a key
\* without expiry store in the map.
NoExpiry == [has |-> FALSE, at |-> 0]

ExpiresAt(e) == [has |-> TRUE, at |-> e]

IdleThread ==
    [pc |-> "idle", cmd |-> NoCmd, i |-> 0, locks |-> {}, todo |-> {},
     defers |-> <<>>, base |-> NoValue, src |-> NoValue, sets |-> {},
     out |-> NoValue, res |-> "-", sub |-> NoSub]

\* ------------------------------------------------------------------------
\* Keyspace primitives (keyspace.go)

KeyExists(k) == keyLocks[k].exists

ExistingKeys == {k \in Keys : KeyExists(k)}

\* utils.IsMaxMemoryExceeded and the HeapInuse < MaxMemory tests read the Go
\* heap, which the keyspace does not determine: with a memory limit either
\* reading can come back, without one the answer is always "not exceeded".
MemReadings == IF config.maxMemory THEN BOOLEAN ELSE {FALSE}

\* The policy test of CreateKeyAndLock and SetValue read as a test for
\* another policy.
NoEvictionMisread == config.policy = "allkeys-random"

NoEviction == config.policy = "noeviction"

LFUPolicies == {"allkeys-lfu", "volatile-lfu"}

LRUPolicies == {"allkeys-lru", "volatile-lru"}

RandomPolicies == {"allkeys-random", "volatile-random"}

\* updateKeyInCache and adjustMemoryUsage return at once without a memory
\* limit.  Under noeviction updateKeyInCache's switch has no case and
\* adjustMemoryUsage's switch returns nil whatever the heap readings were,
\* so there the two calls are passed over; under every other policy the
\* model steps through them.
Evicts == config.maxMemory /\ config.policy # "noeviction"

\* Where SetValue, GetValue and a touching SetKeyExpiry go on: the policies
\* with a case in updateKeyInCache's switch lock their cache first.
CacheEntry ==
    IF config.policy \in LFUPolicies \cup LRUPolicies
    THEN "updateKeyInCache" ELSE "adjustMemoryUsage"

Without(seq, k) == SelectSeq(seq, LAMBDA x : x # k)

\* CacheLRU: the keys from the least to the most recently used.  Update
\* makes a key the most recent one, Pop takes the least recent one.
LRUUpdate(cache, k) == Append(Without(cache, k), k)

LRUDelete(cache, k) == Without(cache, k)

LRUPop(cache) == Head(cache)

\* CacheLFU: the access count of each key, 0 for a key not in the cache.
LFUUpdate(cache, k) == [cache EXCEPT ![k] = @ + 1]

LFUDelete(cache, k) == [cache EXCEPT ![k] = 0]

EmptyLFU == [mutex |-> NoThread, cache |-> [k \in Keys |-> 0]]

EmptyLRU == [mutex |-> NoThread, cache |-> <<>>]

\* The cache mutex the configured policy uses, as its holder.
CacheMutex ==
    IF config.policy \in LFUPolicies THEN lfuCache.mutex ELSE lruCache.mutex

\* A cache after the deferred mutex.Unlock() of a call by thread t.
Unlocked(c, t) == IF c.mutex = t THEN [c EXCEPT !.mutex = NoThread] ELSE c

\* The keys the TTL index has an entry for.
VolatileKeys == {k \in Keys : keyExpiry[k].has}

\* One poll of KeyLock's loop with the two branches of the select in the
\* other order: TryLock first, ctx.Done() only when it failed.
LockOutcomeTryFirst(t, k) ==
    IF ~KeyExists(k) THEN "notfound"
    ELSE IF ~keyLocks[k].w /\ keyLocks[k].r = 0 THEN "ok"
    ELSE IF ctxDone[t] THEN "cancelled"
    ELSE "busy"

\* One poll of KeyLock's loop: the select takes ctx.Done() when the context
\* is cancelled, otherwise the default branch, which fails on a missing
\* entry and else calls TryLock.
LockOutcome(t, k) ==
    IF ctxDone[t] THEN "cancelled"
    ELSE IF ~KeyExists(k) THEN "notfound"
    ELSE IF ~keyLocks[k].w /\ keyLocks[k].r = 0 THEN "ok"
    ELSE "busy"

\* One poll of KeyRLock's loop (TryRLock succeeds unless write-locked).
RLockOutcome(t, k) ==
    IF ctxDone[t] THEN "cancelled"
    ELSE IF ~KeyExists(k) THEN "notfound"
    ELSE IF ~keyLocks[k].w THEN "ok"
    ELSE "busy"

HeldInc(t, k, f) == [held EXCEPT ![t][k][f] = @ + 1]

HeldDec(t, k, f) == [held EXCEPT ![t][k][f] = IF @ > 0 THEN @ - 1 ELSE 0]

\* The thread record after its keyspace call returned.
Ret(r, e) == [r EXCEPT !.pc = r.sub.ret, !.sub.err = e]

\* The thread record entering a keyspace call.
Call(r, label, k, v, ret) ==
    [r EXCEPT !.pc = label,
              !.sub = [NoSub EXCEPT !.key = k, !.val = v, !.ret = ret]]

OnlyTh(t, r) ==
    /\ th' = [th EXCEPT ![t] = r]
    /\ UNCHANGED <<keyLocks, keyCreationLock, store, config, held, ctxDone, fatal, aofVars, aclVars, stVars, utVars, evVars>>

Running(t, label) == ~fatal /\ th[t].pc = label

\* KeyLock: leaves the loop with the write lock, or with an error.
KeyLock(t) ==
    /\ Running(t, "KeyLock")
    /\ LET k == th[t].sub.key
           o == LockOutcome(t, k)
       IN  /\ o # "busy"
           /\ IF o = "ok"
              THEN /\ keyLocks' = [keyLocks EXCEPT ![k].w = TRUE]
                   /\ held' = HeldInc(t, k, "w")
              ELSE UNCHANGED <<keyLocks, held>>
           /\ th' = [th EXCEPT ![t] = Ret(th[t], o # "ok")]
    /\ UNCHANGED <<keyCreationLock, store, config, ctxDone, fatal, aofVars, aclVars, stVars, utVars, evVars>>

\* KeyRLock: leaves the loop with a read lock, or with an error.
KeyRLock(t) ==
    /\ Running(t, "KeyRLock")
    /\ LET k == th[t].sub.key
           o == RLockOutcome(t, k)
       IN  /\ o # "busy"
           /\ IF o = "ok"
              THEN /\ keyLocks' = [keyLocks EXCEPT ![k].r = @ + 1]
                   /\ held' = HeldInc(t, k, "r")
              ELSE UNCHANGED <<keyLocks, held>>
           /\ th' = [th EXCEPT ![t] = Ret(th[t], o # "ok")]
    /\ UNCHANGED <<keyCreationLock, store, config, ctxDone, fatal, aofVars, aclVars, stVars, utVars, evVars>>

\* A round of KeyLock's loop taken apart, as another thread can find it:
\* the nil test of line 23 has found the entry, and TryLock of line 26 is
\* still to look the entry up again.
KeyLock_exists(t) ==
    /\ Running(t, "KeyLock")
    /\ ~ctxDone[t]
    /\ KeyExists(th[t].sub.key)
    /\ OnlyTh(t, [th[t] EXCEPT !.pc = "KeyLock_TryLock"])

\* server.keyLocks[key].TryLock(): on the entry if it is still there; on
\* the nil *sync.RWMutex if the entry has been deleted since the test, a nil
\* pointer dereference that stops the process.
KeyLock_TryLock(t) ==
    /\ Running(t, "KeyLock_TryLock")
    /\ LET k == th[t].sub.key
           free == ~keyLocks[k].w /\ keyLocks[k].r = 0
       IN  /\ fatal' = ~KeyExists(k)
           /\ IF KeyExists(k) /\ free
              THEN /\ keyLocks' = [keyLocks EXCEPT ![k].w = TRUE]
                   /\ held' = HeldInc(t, k, "w")
                   /\ th' = [th EXCEPT ![t] = Ret(th[t], FALSE)]
              ELSE /\ th' = [th EXCEPT ![t].pc =
                                 IF KeyExists(k) THEN "KeyLock" ELSE @]
                   /\ UNCHANGED <<keyLocks, held>>
    /\ UNCHANGED <<keyCreationLock, store, config, ctxDone, aofVars, aclVars, stVars, utVars, evVars>>

\* The same for KeyRLock: the nil test of line 48 and TryRLock of line 51.
KeyRLock_exists(t) ==
    /\ Running(t, "KeyRLock")
    /\ ~ctxDone[t]
    /\ KeyExists(th[t].sub.key)
    /\ OnlyTh(t, [th[t] EXCEPT !.pc = "KeyRLock_TryRLock"])

KeyRLock_TryRLock(t) ==
    /\ Running(t, "KeyRLock_TryRLock")
    /\ LET k == th[t].sub.key
       IN  /\ fatal' = ~KeyExists(k)
           /\ IF KeyExists(k) /\ ~keyLocks[k].w
              THEN /\ keyLocks' = [keyLocks EXCEPT ![k].r = @ + 1]
                   /\ held' = HeldInc(t, k, "r")
                   /\ th' = [th EXCEPT ![t] = Ret(th[t], FALSE)]
              ELSE /\ th' = [th EXCEPT ![t].pc =
                                 IF KeyExists(k) THEN "KeyRLock" ELSE @]
                   /\ UNCHANGED <<keyLocks, held>>
    /\ UNCHANGED <<keyCreationLock, store, config, ctxDone, aofVars, aclVars, stVars, utVars, evVars>>

\* CreateKeyAndLock up to the decision on the entry: the memory test, then
\* keyCreationLock.Lock() and the KeyExists test.  A missing entry is
\* created write-locked and the creation lock released on return; for an
\* existing one the call goes on to KeyLock with the creation lock held.
CreateKeyAndLock(t) ==
    /\ Running(t, "CreateKeyAndLock")
    /\ LET k == th[t].sub.key IN
       \E over \in MemReadings :
          LET r == [th[t] EXCEPT !.sub.over = over] IN
          IF over /\ NoEviction
          THEN /\ th' = [th EXCEPT ![t] = Ret(r, TRUE)]
               /\ UNCHANGED <<keyLocks, keyCreationLock, held>>
          ELSE /\ keyCreationLock = NoThread
               /\ IF ~KeyExists(k)
                  THEN /\ keyLocks' = [keyLocks EXCEPT ![k] = NewLockedMutex]
                       /\ held' = HeldInc(t, k, "w")
                       /\ th' = [th EXCEPT ![t] = Ret(r, FALSE)]
                       /\ UNCHANGED keyCreationLock
                  ELSE /\ keyCreationLock' = t
                       /\ th' = [th EXCEPT ![t] = [r EXCEPT !.pc = "ckl_KeyLock"]]
                       /\ UNCHANGED <<keyLocks, held>>
    /\ UNCHANGED <<store, config, ctxDone, fatal, aofVars, aclVars, stVars, utVars, evVars>>

\* CreateKeyAndLock's "return server.KeyLock(ctx, key)", polled while the
\* creation lock is held; the deferred Unlock releases it on return.
CreateKeyAndLock_KeyLock(t) ==
    /\ Running(t, "ckl_KeyLock")
    /\ LET k == th[t].sub.key
           o == LockOutcome(t, k)
       IN  /\ o # "busy"
           /\ IF o = "ok"
              THEN /\ keyLocks' = [keyLocks EXCEPT ![k].w = TRUE]
                   /\ held' = HeldInc(t, k, "w")
              ELSE UNCHANGED <<keyLocks, held>>
           /\ keyCreationLock' = NoThread
           /\ th' = [th EXCEPT ![t] = Ret(th[t], o # "ok")]
    /\ UNCHANGED <<store, config, ctxDone, fatal, aofVars, aclVars, stVars, utVars, evVars>>

\* Where a thread goes when updateKeyInCache has returned: SetValue returns
\* nil to its caller, GetValue reads the store.
AfterCache(r) ==
    IF r.sub.isGet THEN [r EXCEPT !.pc = "GetValue_read"] ELSE Ret(r, FALSE)

\* SetValue: the memory test, the store write, then updateKeyInCache (which
\* returns at once without a memory limit).
SetValue(t) ==
    /\ Running(t, "SetValue")
    /\ LET k == th[t].sub.key IN
       \E over \in MemReadings :
          LET r == [th[t] EXCEPT !.sub.over = over] IN
          IF over /\ NoEviction
          THEN /\ th' = [th EXCEPT ![t] = Ret(r, TRUE)]
               /\ UNCHANGED store
          ELSE /\ store' = [store EXCEPT ![k] = r.sub.val]
               /\ th' = [th EXCEPT ![t] =
                           IF Evicts
                           THEN [r EXCEPT !.pc = CacheEntry]
                           ELSE Ret(r, FALSE)]
    /\ UNCHANGED <<keyLocks, keyCreationLock, config, held, ctxDone, fatal, aofVars, aclVars, stVars, utVars, evVars>>

\* GetValue: updateKeyInCache first, then the read of server.store[key].
GetValue(t) ==
    /\ Running(t, "GetValue")
    /\ OnlyTh(t, IF Evicts
                 THEN [th[t] EXCEPT !.pc = CacheEntry, !.sub.isGet = TRUE]
                 ELSE [Ret(th[t], FALSE) EXCEPT !.sub.val = store[th[t].sub.key]])

GetValue_read(t) ==
    /\ Running(t, "GetValue_read")
    /\ OnlyTh(t, [Ret(th[t], FALSE) EXCEPT !.sub.val = store[th[t].sub.key]])

\* SetKeyExpiry(ctx, key, expire, touch): the entry is written whatever the
\* time is, the zero time of a key restored without expiry included.  The
\* restore function passes touch = false, every other caller touches.
SetKeyExpiry(t) ==
    /\ Running(t, "SetKeyExpiry")
    /\ LET k == th[t].sub.key
           touch == th[t].cmd.op # "setkeydata"
       IN  /\ keyExpiry' = [keyExpiry EXCEPT ![k] = ExpiresAt(th[t].cmd.at)]
           /\ th' = [th EXCEPT ![t] =
                       IF touch /\ Evicts
                       THEN [th[t] EXCEPT !.pc = CacheEntry]
                       ELSE Ret(th[t], FALSE)]
    /\ UNCHANGED <<keyLocks, keyCreationLock, store, config, held, ctxDone, fatal,
                   aofVars, aclVars, stVars, utVars, lfuCache, lruCache, now, swept, accessed>>

\* RemoveKeyExpiry(key): the entry is overwritten with the zero time, not
\* deleted, and the key is taken out of the cache of an LFU or LRU policy
\* without the cache's mutex.
RemoveKeyExpiry(t) ==
    /\ Running(t, "RemoveKeyExpiry")
    /\ LET k == th[t].sub.key
       IN  /\ keyExpiry' = [keyExpiry EXCEPT ![k] = ExpiresAt(0)]
           /\ lfuCache' = IF config.policy \in LFUPolicies
                          THEN [lfuCache EXCEPT !.cache = LFUDelete(@, k)]
                          ELSE lfuCache
           /\ lruCache' = IF config.policy \in LRUPolicies
                          THEN [lruCache EXCEPT !.cache = LRUDelete(@, k)]
                          ELSE lruCache
           /\ th' = [th EXCEPT ![t] = Ret(th[t], FALSE)]
    /\ UNCHANGED <<keyLocks, keyCreationLock, store, config, held, ctxDone, fatal,
                   aofVars, aclVars, stVars, utVars, now, swept, accessed>>

\* ------------------------------------------------------------------------
\* updateKeyInCache and adjustMemoryUsage (keyspace.go)

\* updateKeyInCache returns to its caller: its deferred mutex.Unlock()
\* runs, and the caller goes on as r.
ReturnFromCache(t, r) ==
    /\ th' = [th EXCEPT ![t] = AfterCache(r)]
    /\ lfuCache' = Unlocked(lfuCache, t)
    /\ lruCache' = Unlocked(lruCache, t)
    /\ UNCHANGED <<keyLocks, keyCreationLock, store, config, held, ctxDone, fatal,
                   aofVars, aclVars, stVars, utVars, keyExpiry, now, swept, accessed>>

\* mutex.Lock() on the cache of the configured policy.  updateKeyInCache
\* takes it, defers the Unlock and updates the key (under a volatile policy
\* only a key with an entry in keyExpiry); adjustMemoryUsage takes it again
\* at the head of its LFU and LRU branches.  sync.Mutex is not reentrant:
\* the second Lock waits for the Unlock that updateKeyInCache deferred, so
\* no behaviour goes past it and the loop behind it has no step here.
CacheMutexLock(t) ==
    /\ ~fatal
    /\ th[t].pc \in {"updateKeyInCache", "amu_Lock"}
    /\ CacheMutex = NoThread
    /\ LET k == th[t].sub.key
           first == th[t].pc = "updateKeyInCache"
           update == /\ first
                     /\ \/ config.policy \in {"allkeys-lfu", "allkeys-lru"}
                        \/ keyExpiry[k].has
       IN  /\ IF config.policy \in LFUPolicies
              THEN /\ lfuCache' = [mutex |-> t,
                                   cache |-> IF update
                                             THEN LFUUpdate(lfuCache.cache, k)
                                             ELSE lfuCache.cache]
                   /\ UNCHANGED lruCache
              ELSE /\ lruCache' = [mutex |-> t,
                                   cache |-> IF update
                                             THEN LRUUpdate(lruCache.cache, k)
                                             ELSE lruCache.cache]
                   /\ UNCHANGED lfuCache
           /\ accessed' = IF first THEN LRUUpdate(accessed, k) ELSE accessed
           /\ th' = [th EXCEPT ![t].pc = IF first THEN "adjustMemoryUsage"
                                         ELSE "amu_Pop"]
    /\ UNCHANGED <<keyLocks, keyCreationLock, store, config, held, ctxDone, fatal,
                   aofVars, aclVars, stVars, utVars, keyExpiry, now, swept>>

\* adjustMemoryUsage up to its switch: the two HeapInuse readings around
\* runtime.GC(), recorded in the frame.  Under the limit the function
\* returns nil; over it the LFU and LRU branches lock their cache, the two
\* random branches start their loop, and every other policy returns nil.
adjustMemoryUsage(t) ==
    /\ Running(t, "adjustMemoryUsage")
    /\ \E over \in MemReadings :
          LET r == [th[t] EXCEPT !.sub.over = over] IN
          IF over /\ config.policy \in LFUPolicies \cup LRUPolicies
          THEN OnlyTh(t, [r EXCEPT !.pc = "amu_Lock"])
          ELSE IF over /\ config.policy \in RandomPolicies
          THEN OnlyTh(t, [r EXCEPT !.pc = "amu_pick"])
          ELSE ReturnFromCache(t, r)

\* The keys a random branch draws from: the range over server.keyLocks
\* under allkeys-random, over server.keyExpiry under volatile-random.
EvictionCandidates ==
    IF config.policy = "allkeys-random" THEN ExistingKeys ELSE VolatileKeys

\* One turn of the outer loop: an empty map is an error (which the callers
\* only log); otherwise rand.Intn and the range over the map select a key.
adjustMemoryUsage_pick(t) ==
    /\ Running(t, "amu_pick")
    /\ IF EvictionCandidates = {}
       THEN OnlyTh(t, AfterCache(th[t]))
       ELSE \E v \in EvictionCandidates :
               OnlyTh(t, [th[t] EXCEPT !.pc = "amu_KeyLock", !.sub.victim = v])

\* KeyLock(ctx, key) on the victim; an error ends the adjustment.
adjustMemoryUsage_KeyLock(t) ==
    /\ Running(t, "amu_KeyLock")
    /\ LET v == th[t].sub.victim
           o == LockOutcome(t, v)
       IN  /\ o # "busy"
           /\ IF o = "ok"
              THEN /\ keyLocks' = [keyLocks EXCEPT ![v].w = TRUE]
                   /\ th' = [th EXCEPT ![t].pc = "amu_delete_keyLocks",
                                       ![t].sub.evicting = TRUE]
              ELSE /\ th' = [th EXCEPT ![t] = AfterCache(th[t])]
                   /\ UNCHANGED keyLocks
    /\ UNCHANGED <<keyCreationLock, store, config, held, ctxDone, fatal, aofVars, aclVars, stVars, utVars, evVars>>

\* delete(server.keyLocks, key): the victim's mutex, still write-locked by
\* this thread, is no longer reachable through the map.
adjustMemoryUsage_delete_keyLocks(t) ==
    /\ Running(t, "amu_delete_keyLocks")
    /\ keyLocks' = [keyLocks EXCEPT ![th[t].sub.victim] = NoLock]
    /\ th' = [th EXCEPT ![t].pc = "amu_delete_store"]
    /\ UNCHANGED <<keyCreationLock, store, config, held, ctxDone, fatal, aofVars, aclVars, stVars, utVars, evVars>>

\* delete(server.store, key)
adjustMemoryUsage_delete_store(t) ==
    /\ Running(t, "amu_delete_store")
    /\ store' = [store EXCEPT ![th[t].sub.victim] = NoValue]
    /\ th' = [th EXCEPT ![t].pc = "amu_delete_keyExpiry"]
    /\ UNCHANGED <<keyLocks, keyCreationLock, config, held, ctxDone, fatal, aofVars, aclVars, stVars, utVars, evVars>>

\* delete(server.keyExpiry, key), runtime.GC() and the next HeapInuse
\* reading: under the limit the function returns, otherwise idx goes
\* negative, the range ends and the outer loop takes another turn.
adjustMemoryUsage_delete_keyExpiry(t) ==
    /\ Running(t, "amu_delete_keyExpiry")
    /\ keyExpiry' = [keyExpiry EXCEPT ![th[t].sub.victim] = NoExpiry]
    /\ \E over \in MemReadings :
          LET r == [th[t] EXCEPT !.sub.evicting = FALSE, !.sub.victim = NoKey]
          IN  th' = [th EXCEPT ![t] = IF over THEN [r EXCEPT !.pc = "amu_pick"]
                                      ELSE AfterCache(r)]
    /\ UNCHANGED <<keyLocks, keyCreationLock, store, config, held, ctxDone, fatal,
                   aofVars, aclVars, stVars, utVars, lfuCache, lruCache, now, swept, accessed>>

\* ------------------------------------------------------------------------
\* KeyUnlock, KeyRUnlock and a handler's return

\* KeyUnlock(key): nothing without an entry; Unlock of a mutex that is not
\* write-locked is a fatal error of the Go runtime.
KeyUnlock(t, k) ==
    IF ~KeyExists(k)
    THEN UNCHANGED <<keyLocks, held, fatal>>
    ELSE IF keyLocks[k].w
    THEN /\ keyLocks' = [keyLocks EXCEPT ![k].w = FALSE]
         /\ held' = HeldDec(t, k, "w")
         /\ UNCHANGED fatal
    ELSE /\ fatal' = TRUE
         /\ UNCHANGED <<keyLocks, held>>

\* KeyRUnlock(key): nothing without an entry; RUnlock of a mutex with no
\* reader is a fatal error of the Go runtime.
KeyRUnlock(t, k) ==
    IF ~KeyExists(k)
    THEN UNCHANGED <<keyLocks, held, fatal>>
    ELSE IF keyLocks[k].r > 0
    THEN /\ keyLocks' = [keyLocks EXCEPT ![k].r = @ - 1]
         /\ held' = HeldDec(t, k, "r")
         /\ UNCHANGED fatal
    ELSE /\ fatal' = TRUE
         /\ UNCHANGED <<keyLocks, held>>

\* The thread record of a handler that returns with result res: its
\* deferred calls run next, last registered first.
Return(r, res) == [r EXCEPT !.pc = "return", !.res = res]

Defer(r, kind, k) == [r EXCEPT !.defers = Append(@, [kind |-> kind, key |-> k])]

\* One deferred call.  "U" is defer KeyUnlock(key), "RU" is defer
\* KeyRUnlock(key), "locks" is the deferred func that ranges over the
\* handler's locks map and read-unlocks every key in it, in map order.
RunDefers(t) ==
    /\ Running(t, "return")
    /\ LET r == th[t]
           n == Len(r.defers)
           pop == [r EXCEPT !.defers = SubSeq(@, 1, n - 1)]
       IN  IF n = 0
           THEN /\ th' = [th EXCEPT ![t].pc = "done"]
                /\ UNCHANGED <<keyLocks, held, fatal>>
           ELSE LET d == r.defers[n] IN
                IF d.kind = "U"
                THEN KeyUnlock(t, d.key) /\ th' = [th EXCEPT ![t] = pop]
                ELSE IF d.kind = "RU"
                THEN KeyRUnlock(t, d.key) /\ th' = [th EXCEPT ![t] = pop]
                ELSE IF r.locks = {}
                THEN /\ th' = [th EXCEPT ![t] = pop]
                     /\ UNCHANGED <<keyLocks, held, fatal>>
                ELSE \E k \in r.locks :
                        /\ KeyRUnlock(t, k)
                        /\ th' = [th EXCEPT ![t].locks = @ \ {k}]
    /\ UNCHANGED <<keyCreationLock, store, config, ctxDone, aofVars, aclVars, stVars, utVars, evVars>>

\* A handler step that calls KeyUnlock(key) inline and goes on as r.
UnlockStep(t, k, r) ==
    /\ KeyUnlock(t, k)
    /\ th' = [th EXCEPT ![t] = r]
    /\ UNCHANGED <<keyCreationLock, store, config, ctxDone, aofVars, aclVars, stVars, utVars, evVars>>

\* A *Set changed in place through the pointer a handler read: the store
\* shows the change where it still holds that object.
MutateObject(o, ms) ==
    [k \in Keys |-> IF store[k].present /\ store[k].isSet /\ store[k].obj = o
                    THEN [store[k] EXCEPT !.members = ms]
                    ELSE store[k]]

\* The members a *Set object has now: those the store shows for it, or,
\* once the store no longer holds the object, those last read (was).
ObjMembers(was) ==
    IF \E k \in Keys : store[k].present /\ store[k].isSet /\ store[k].obj = was.obj
    THEN store[CHOOSE k \in Keys :
             store[k].present /\ store[k].isSet /\ store[k].obj = was.obj].members
    ELSE was.members

\* ------------------------------------------------------------------------
\* Set handlers (internal/modules/hash/commands.go, package set)

Starts(t, op) == Running(t, "start") /\ th[t].cmd.op = op

\* SADD key member [member ...]
handleSADD(t) ==
    LET r == th[t]
        key == r.cmd.dst
    IN
    \/ /\ Starts(t, "sadd")
       /\ OnlyTh(t, IF ~KeyExists(key)
                    THEN Call(r, "CreateKeyAndLock", key, NoValue, "sadd_created")
                    ELSE Call(r, "KeyLock", key, NoValue, "sadd_locked"))
    \/ /\ Running(t, "sadd_created")
       /\ OnlyTh(t, IF r.sub.err THEN Return(r, "err")
                    ELSE Call(r, "SetValue", key, SetValueOf(r.cmd.mem, t), "sadd_set"))
    \/ /\ Running(t, "sadd_set")
       /\ IF r.sub.err
          THEN OnlyTh(t, Return(r, "err"))
          ELSE UnlockStep(t, key, Return(r, "ok"))
    \/ /\ Running(t, "sadd_locked")
       /\ OnlyTh(t, IF r.sub.err THEN Return(r, "err")
                    ELSE Call(Defer(r, "U", key), "GetValue", key, NoValue, "sadd_got"))
    \/ /\ Running(t, "sadd_got")
       /\ IF ~r.sub.val.isSet
          THEN OnlyTh(t, Return(r, "err"))
          ELSE /\ store' = MutateObject(r.sub.val.obj,
                                        ObjMembers(r.sub.val) \cup r.cmd.mem)
               /\ th' = [th EXCEPT ![t] = Return(r, "ok")]
               /\ UNCHANGED <<keyLocks, keyCreationLock, config, held, ctxDone, fatal, aofVars, aclVars, stVars, utVars, evVars>>

\* Set.Move(destination, member) on the two objects the handler holds.
MoveInStore(srcv, dstv, m) ==
    IF m \notin ObjMembers(srcv)
    THEN store
    ELSE [k \in Keys |->
            IF store[k].present /\ store[k].isSet /\ store[k].obj = dstv.obj
            THEN [store[k] EXCEPT !.members = ObjMembers(dstv) \cup {m}]
            ELSE IF store[k].present /\ store[k].isSet /\ store[k].obj = srcv.obj
            THEN [store[k] EXCEPT !.members = ObjMembers(srcv) \ {m}]
            ELSE store[k]]

\* SMOVE source destination member
handleSMOVE(t) ==
    LET r == th[t]
        source == r.cmd.srcs[1]
        destination == r.cmd.dst
        member == CHOOSE m \in r.cmd.mem : TRUE
        LockDest(q) ==
            IF ~KeyExists(destination)
            THEN Call(q, "CreateKeyAndLock", destination, NoValue, "smove_dst_created")
            ELSE Call(q, "KeyLock", destination, NoValue, "smove_dst_locked")
        Move(dstv) ==
            /\ store' = MoveInStore(r.src, dstv, member)
            /\ th' = [th EXCEPT ![t] = Return(r, "ok")]
            /\ UNCHANGED <<keyLocks, keyCreationLock, config, held, ctxDone, fatal, aofVars, aclVars, stVars, utVars, evVars>>
    IN
    \/ /\ Starts(t, "smove")
       /\ OnlyTh(t, IF ~KeyExists(source) THEN Return(r, "ok")
                    ELSE Call(r, "KeyLock", source, NoValue, "smove_src_locked"))
    \/ /\ Running(t, "smove_src_locked")
       /\ OnlyTh(t, IF r.sub.err THEN Return(r, "err")
                    ELSE Call(Defer(r, "U", source), "GetValue", source, NoValue,
                              "smove_src_got"))
    \/ /\ Running(t, "smove_src_got")
       /\ OnlyTh(t, IF ~r.sub.val.isSet THEN Return(r, "err")
                    ELSE LockDest([r EXCEPT !.src = r.sub.val]))
    \/ /\ Running(t, "smove_dst_created")
       /\ OnlyTh(t, IF r.sub.err THEN Return(r, "err")
                    ELSE Call(Defer(r, "U", destination), "SetValue", destination,
                              SetValueOf({}, t), "smove_dst_set"))
    \/ /\ Running(t, "smove_dst_set")
       /\ IF r.sub.err THEN OnlyTh(t, Return(r, "err"))
          ELSE Move(SetValueOf({}, t))
    \/ /\ Running(t, "smove_dst_locked")
       /\ OnlyTh(t, IF r.sub.err THEN Return(r, "err")
                    ELSE Call(Defer(r, "U", destination), "GetValue", destination,
                              NoValue, "smove_dst_got"))
    \/ /\ Running(t, "smove_dst_got")
       /\ IF ~r.sub.val.isSet THEN OnlyTh(t, Return(r, "err"))
          ELSE Move(r.sub.val)

\* SCARD key
handleSCARD(t) ==
    LET r == th[t]
        key == r.cmd.dst
    IN
    \/ /\ Starts(t, "scard")
       /\ OnlyTh(t, IF ~KeyExists(key) THEN Return(r, "ok")
                    ELSE Call(r, "KeyRLock", key, NoValue, "scard_locked"))
    \/ /\ Running(t, "scard_locked")
       /\ OnlyTh(t, IF r.sub.err THEN Return(r, "err")
                    ELSE Call(Defer(r, "RU", key), "GetValue", key, NoValue, "scard_got"))
    \/ /\ Running(t, "scard_got")
       /\ OnlyTh(t, Return(r, IF r.sub.val.isSet THEN "ok" ELSE "err"))

At(t, op, label) == Running(t, label) /\ th[t].cmd.op = op

\* The destination of a ...STORE command: KeyLock when the key exists,
\* CreateKeyAndLock otherwise.
LockDestination(r, ret) ==
    IF KeyExists(r.cmd.dst)
    THEN Call(r, "KeyLock", r.cmd.dst, NoValue, ret)
    ELSE Call(r, "CreateKeyAndLock", r.cmd.dst, NoValue, ret)

\* Intersection(0, sets...) and Union(sets...) over the sets collected.
Intersection(sets) ==
    {m \in Members : \A v \in sets : m \in ObjMembers(v)}

Union(sets) == UNION {ObjMembers(v) : v \in sets}

\* The part SINTER and SINTERSTORE share: the deferred unlock of the locks
\* map, the loop that read-locks every key (a missing key ends the command
\* with an empty reply, a lock error with the error), and the range over
\* the locks map that reads the sets.  A handler of op goes on at "computed".
InterLocking(t, op) ==
    LET r == th[t]
        keys == r.cmd.srcs
    IN
    \/ /\ Starts(t, op)
       /\ OnlyTh(t, [Defer(r, "locks", NoKey) EXCEPT !.pc = "loop", !.i = 1])
    \/ /\ At(t, op, "loop")
       /\ OnlyTh(t, IF r.i > Len(keys)
                    THEN [r EXCEPT !.pc = "range", !.todo = r.locks]
                    ELSE IF ~KeyExists(keys[r.i]) THEN Return(r, "ok")
                    ELSE Call(r, "KeyRLock", keys[r.i], NoValue, "rlocked"))
    \/ /\ At(t, op, "rlocked")
       /\ OnlyTh(t, IF r.sub.err THEN Return(r, "err")
                    ELSE [r EXCEPT !.pc = "loop", !.i = @ + 1,
                                   !.locks = @ \cup {keys[r.i]}])
    \/ /\ At(t, op, "range")
       /\ IF r.todo = {}
          THEN OnlyTh(t, [r EXCEPT !.pc = "computed"])
          ELSE \E key \in r.todo :
                  OnlyTh(t, Call([r EXCEPT !.todo = @ \ {key}], "GetValue", key,
                                 NoValue, "got"))
    \/ /\ At(t, op, "got")
       /\ OnlyTh(t, IF ~r.sub.val.isSet THEN Return(r, "err")
                    ELSE [r EXCEPT !.pc = "range", !.sets = @ \cup {r.sub.val}])

\* SINTER key [key ...]
handleSINTER(t) ==
    \/ InterLocking(t, "sinter")
    \/ /\ At(t, "sinter", "computed")
       /\ OnlyTh(t, Return(th[t], IF th[t].sets = {} THEN "err" ELSE "ok"))

\* SINTERSTORE destination key [key ...]
handleSINTERSTORE(t) ==
    LET r == th[t] IN
    \/ InterLocking(t, "sinterstore")
    \/ /\ At(t, "sinterstore", "computed")
       /\ OnlyTh(t, LockDestination([r EXCEPT !.out = SetValueOf(Intersection(r.sets), t)],
                                    "dst_locked"))
    \/ /\ At(t, "sinterstore", "dst_locked")
       /\ OnlyTh(t, IF r.sub.err THEN Return(r, "err")
                    ELSE Call(r, "SetValue", r.cmd.dst, r.out, "dst_set"))
    \/ /\ At(t, "sinterstore", "dst_set")
       /\ IF r.sub.err THEN OnlyTh(t, Return(r, "err"))
          ELSE UnlockStep(t, r.cmd.dst, Return(r, "ok"))

\* SUNIONSTORE destination key [key ...]
handleSUNIONSTORE(t) ==
    LET r == th[t]
        keys == r.cmd.srcs
    IN
    \/ /\ Starts(t, "sunionstore")
       /\ OnlyTh(t, [Defer(r, "locks", NoKey) EXCEPT !.pc = "loop", !.i = 1])
    \/ /\ At(t, "sunionstore", "loop")
       /\ OnlyTh(t, IF r.i > Len(keys)
                    THEN [r EXCEPT !.pc = "range", !.todo = r.locks]
                    ELSE IF ~KeyExists(keys[r.i]) THEN [r EXCEPT !.i = @ + 1]
                    ELSE Call(r, "KeyRLock", keys[r.i], NoValue, "rlocked"))
    \/ /\ At(t, "sunionstore", "rlocked")
       /\ OnlyTh(t, IF r.sub.err THEN Return(r, "err")
                    ELSE [r EXCEPT !.pc = "loop", !.i = @ + 1,
                                   !.locks = @ \cup {keys[r.i]}])
    \/ /\ At(t, "sunionstore", "range")
       /\ IF r.todo = {}
          THEN OnlyTh(t, LockDestination([r EXCEPT !.out = SetValueOf(Union(r.sets), t)],
                                         "dst_locked"))
          ELSE \E key \in r.todo :
                  OnlyTh(t, Call([r EXCEPT !.todo = @ \ {key}], "GetValue", key,
                                 NoValue, "got"))
    \/ /\ At(t, "sunionstore", "got")
       /\ OnlyTh(t, IF ~r.sub.val.isSet THEN Return(r, "err")
                    ELSE [r EXCEPT !.pc = "range", !.sets = @ \cup {r.sub.val}])
    \/ /\ At(t, "sunionstore", "dst_locked")
       /\ OnlyTh(t, IF r.sub.err THEN Return(r, "err")
                    ELSE Call(Defer(r, "U", r.cmd.dst), "SetValue", r.cmd.dst, r.out,
                              "dst_set"))
    \/ /\ At(t, "sunionstore", "dst_set")
       /\ OnlyTh(t, Return(r, IF r.sub.err THEN "err" ELSE "ok"))

\* The part SDIFF and SDIFFSTORE share: the base set (ReadKeys[0]) is
\* read-locked and read first; the loop over ReadKeys[1:] read-locks the
\* keys that exist and skips a key on a missing entry or a lock error; then
\* every key of ReadKeys[1:] is read with GetValue, whether the loop locked
\* it or not, and values that are not sets are skipped.
DiffLocking(t, op) ==
    LET r == th[t]
        keys == r.cmd.srcs
    IN
    \/ /\ Starts(t, op)
       /\ OnlyTh(t, IF ~KeyExists(keys[1]) THEN Return(r, "err")
                    ELSE Call(r, "KeyRLock", keys[1], NoValue, "base_locked"))
    \/ /\ At(t, op, "base_locked")
       /\ OnlyTh(t, IF r.sub.err THEN Return(r, "err")
                    ELSE Call(Defer(r, "RU", keys[1]), "GetValue", keys[1], NoValue,
                              "base_got"))
    \/ /\ At(t, op, "base_got")
       /\ OnlyTh(t, IF ~r.sub.val.isSet THEN Return(r, "err")
                    ELSE [Defer(r, "locks", NoKey) EXCEPT
                             !.pc = "loop", !.i = 2, !.base = r.sub.val])
    \/ /\ At(t, op, "loop")
       /\ OnlyTh(t, IF r.i > Len(keys) THEN [r EXCEPT !.pc = "read", !.i = 2]
                    ELSE IF ~KeyExists(keys[r.i]) THEN [r EXCEPT !.i = @ + 1]
                    ELSE Call(r, "KeyRLock", keys[r.i], NoValue, "rlocked"))
    \/ /\ At(t, op, "rlocked")
       /\ OnlyTh(t, [r EXCEPT !.pc = "loop", !.i = @ + 1,
                              !.locks = IF r.sub.err THEN @ ELSE @ \cup {keys[r.i]}])
    \/ /\ At(t, op, "read")
       /\ OnlyTh(t, IF r.i > Len(keys) THEN [r EXCEPT !.pc = "computed"]
                    ELSE Call(r, "GetValue", keys[r.i], NoValue, "got"))
    \/ /\ At(t, op, "got")
       /\ OnlyTh(t, [r EXCEPT !.pc = "read", !.i = @ + 1,
                              !.sets = IF r.sub.val.isSet THEN @ \cup {r.sub.val} ELSE @])

\* baseSet.Subtract(sets)
Subtract(base, sets) == ObjMembers(base) \ Union(sets)

\* SDIFF key [key ...]
handleSDIFF(t) ==
    \/ DiffLocking(t, "sdiff")
    \/ /\ At(t, "sdiff", "computed")
       /\ OnlyTh(t, Return(th[t], "ok"))

\* SDIFFSTORE destination key [key ...]
handleSDIFFSTORE(t) ==
    LET r == th[t] IN
    \/ DiffLocking(t, "sdiffstore")
    \/ /\ At(t, "sdiffstore", "computed")
       /\ OnlyTh(t, LockDestination(
                       [r EXCEPT !.out = SetValueOf(Subtract(r.base, r.sets), t)],
                       "dst_locked"))
    \/ /\ At(t, "sdiffstore", "dst_locked")
       /\ OnlyTh(t, IF r.sub.err THEN Return(r, "err")
                    ELSE Call(r, "SetValue", r.cmd.dst, r.out, "dst_set"))
    \/ /\ At(t, "sdiffstore", "dst_set")
       /\ IF r.sub.err THEN OnlyTh(t, Return(r, "err"))
          ELSE UnlockStep(t, r.cmd.dst, Return(r, "ok"))

\* ------------------------------------------------------------------------
\* The callers of SetKeyExpiry and RemoveKeyExpiry.  Both functions ask for
\* the key to be locked before the call: EXPIRE and PERSIST take the key's
\* write lock, make the call and release the lock.

handleExpire(t) ==
    LET r == th[t]
        key == r.cmd.dst
    IN
    \/ /\ Starts(t, "expire")
       /\ OnlyTh(t, Call(r, "KeyLock", key, NoValue, "expire_locked"))
    \/ /\ Running(t, "expire_locked")
       /\ OnlyTh(t, IF r.sub.err THEN Return(r, "error")
                    ELSE Call(Defer(r, "U", key), "SetKeyExpiry", key, NoValue,
                              "expire_set"))
    \/ /\ Running(t, "expire_set")
       /\ OnlyTh(t, Return(r, "1"))

handlePersist(t) ==
    LET r == th[t]
        key == r.cmd.dst
    IN
    \/ /\ Starts(t, "persist")
       /\ OnlyTh(t, Call(r, "KeyLock", key, NoValue, "persist_locked"))
    \/ /\ Running(t, "persist_locked")
       /\ OnlyTh(t, IF r.sub.err THEN Return(r, "error")
                    ELSE Call(Defer(r, "U", key), "RemoveKeyExpiry", key, NoValue,
                              "persist_removed"))
    \/ /\ Running(t, "persist_removed")
       /\ OnlyTh(t, Return(r, "1"))

\* ------------------------------------------------------------------------
\* The function NewEchoVault gives the AOF and snapshot engines to restore
\* one key (echovault.go): CreateKeyAndLock, SetValue, SetExpiry, KeyUnlock
\* under context.Background(), each error only logged.
SetKeyData(t) ==
    LET r == th[t]
        key == r.cmd.dst
    IN
    \/ /\ Starts(t, "setkeydata")
       /\ OnlyTh(t, Call(r, "CreateKeyAndLock", key, NoValue, "skd_created"))
    \/ /\ Running(t, "skd_created")
       /\ OnlyTh(t, Call(r, "SetValue", key, StringValue, "skd_set"))
    \/ /\ Running(t, "skd_set")
       /\ OnlyTh(t, Call(r, "SetKeyExpiry", key, NoValue, "skd_expiry"))
    \/ /\ Running(t, "skd_expiry")
       /\ UnlockStep(t, key, Return(r, "ok"))

\* ------------------------------------------------------------------------
\* RESP bytes (internal/utils.go).  A byte is a one-character string, a
\* token and a message are sequences of bytes.

CR == "\r"

LF == "\n"

NUL == "\\x00"

CRLF == <<CR, LF>>

DigitChars == <<"0", "1", "2", "3", "4", "5", "6", "7", "8", "9">>

IsDigit(c) == \E n \in 1..10 : DigitChars[n] = c

DigitVal(c) == (CHOOSE n \in 1..10 : DigitChars[n] = c) - 1

\* fmt.Sprintf("%d", n) for n >= 0
RECURSIVE Decimal(_)
Decimal(n) ==
    IF n < 10 THEN <<DigitChars[n + 1]>>
    ELSE Decimal(n \div 10) \o <<DigitChars[(n % 10) + 1]>>

RECURSIVE EncodeTokens(_)
EncodeTokens(cmd) ==
    IF cmd = <<>> THEN <<>>
    ELSE <<"$">> \o Decimal(Len(Head(cmd))) \o CRLF \o Head(cmd) \o CRLF
         \o EncodeTokens(Tail(cmd))

\* EncodeCommand: "*<n>\r\n" and "$<len>\r\n<token>\r\n" for every token.
EncodeCommand(cmd) == <<"*">> \o Decimal(Len(cmd)) \o CRLF \o EncodeTokens(cmd)

DecodeError == [err |-> TRUE, cmd |-> <<>>]

\* The integer line of a RESP value: digits up to CRLF, read from pos.
RECURSIVE ReadInt(_, _, _, _)
ReadInt(raw, pos, acc, any) ==
    IF pos > Len(raw) THEN [ok |-> FALSE, val |-> 0, next |-> pos]
    ELSE IF IsDigit(raw[pos])
    THEN ReadInt(raw, pos + 1, acc * 10 + DigitVal(raw[pos]), TRUE)
    ELSE IF any /\ raw[pos] = CR /\ pos + 1 <= Len(raw) /\ raw[pos + 1] = LF
    THEN [ok |-> TRUE, val |-> acc, next |-> pos + 2]
    ELSE [ok |-> FALSE, val |-> 0, next |-> pos]

\* One bulk string at pos: "$<len>\r\n", len bytes, CRLF.
ReadBulk(raw, pos) ==
    IF pos > Len(raw) \/ raw[pos] # "$"
    THEN [ok |-> FALSE, val |-> <<>>, next |-> pos]
    ELSE LET n == ReadInt(raw, pos + 1, 0, FALSE)
             end == n.next + n.val
         IN  IF ~n.ok \/ end + 1 > Len(raw) \/ raw[end] # CR \/ raw[end + 1] # LF
             THEN [ok |-> FALSE, val |-> <<>>, next |-> pos]
             ELSE [ok |-> TRUE, val |-> SubSeq(raw, n.next, end - 1), next |-> end + 2]

RECURSIVE ReadBulks(_, _, _, _)
ReadBulks(raw, pos, n, acc) ==
    IF n = 0 THEN [err |-> FALSE, cmd |-> acc]
    ELSE LET b == ReadBulk(raw, pos) IN
         IF ~b.ok THEN DecodeError
         ELSE ReadBulks(raw, b.next, n - 1, Append(acc, b.val))

\* Decode: the first RESP value of raw, and the strings of its array.  A
\* value that is not an array has no elements: Decode returns no tokens
\* and no error.  Bytes after the first value are not looked at.
Decode(raw) ==
    IF raw = <<>> THEN DecodeError
    ELSE IF raw[1] = "*"
    THEN LET n == ReadInt(raw, 2, 0, FALSE) IN
         IF ~n.ok THEN DecodeError ELSE ReadBulks(raw, n.next, n.val, <<>>)
    ELSE IF raw[1] = "$"
    THEN IF ReadBulk(raw, 1).ok THEN [err |-> FALSE, cmd |-> <<>>] ELSE DecodeError
    ELSE DecodeError

\* AdaptType (internal/utils.go): big.ParseFloat(s, 10, 256, ...) and what
\* is made of its result.  A decimal number is its sign, the digits of its
\* mantissa without the point, and the power of ten they are scaled by.

RECURSIVE DecimalValue(_, _)
DecimalValue(tok, acc) ==
    IF tok = <<>> THEN acc
    ELSE DecimalValue(Tail(tok), acc * 10 + DigitVal(Head(tok)))

\* The first place of seq that holds one of chars, 0 if there is none.
FirstIn(seq, chars) ==
    IF \E i \in 1..Len(seq) : seq[i] \in chars
    THEN CHOOSE i \in 1..Len(seq) :
            seq[i] \in chars /\ \A j \in 1..(i - 1) : seq[j] \notin chars
    ELSE 0

AllDigits(seq) == \A i \in 1..Len(seq) : IsDigit(seq[i])

Zeros(n) == [i \in 1..n |-> "0"]

\* Decimal digits without leading zeros, "0" for none left.
StripZeros(digits) ==
    LET nz == FirstIn(digits, {DigitChars[n] : n \in 2..10})
    IN  IF nz = 0 THEN <<"0">> ELSE SubSeq(digits, nz, Len(digits))

ScanError == [err |-> TRUE, inf |-> FALSE, neg |-> FALSE, digits |-> <<>>,
              scale |-> 0]

\* (*big.Float).Parse in base 10: Inf with an optional sign; else an
\* optional sign, a mantissa of digits with at most one point and at least
\* one digit, and an optional exponent e or E with an optional sign and at
\* least one digit; nothing may follow.
ScanFloat(tok) ==
    LET signed == tok # <<>> /\ Head(tok) \in {"+", "-"}
        neg == signed /\ Head(tok) = "-"
        body == IF signed THEN Tail(tok) ELSE tok
        e == FirstIn(body, {"e", "E"})
        mant == IF e = 0 THEN body ELSE SubSeq(body, 1, e - 1)
        point == FirstIn(mant, {"."})
        int == IF point = 0 THEN mant ELSE SubSeq(mant, 1, point - 1)
        frac == IF point = 0 THEN <<>> ELSE SubSeq(mant, point + 1, Len(mant))
        exp == IF e = 0 THEN <<>> ELSE SubSeq(body, e + 1, Len(body))
        expSigned == exp # <<>> /\ Head(exp) \in {"+", "-"}
        expDigits == IF expSigned THEN Tail(exp) ELSE exp
        expVal == IF expSigned /\ Head(exp) = "-"
                  THEN 0 - DecimalValue(expDigits, 0)
                  ELSE DecimalValue(expDigits, 0)
    IN  IF body \in {<<"I", "n", "f">>, <<"i", "n", "f">>}
        THEN [ScanError EXCEPT !.err = FALSE, !.inf = TRUE, !.neg = neg]
        ELSE IF \/ ~AllDigits(int) \/ ~AllDigits(frac)
                \/ int \o frac = <<>>
                \/ e # 0 /\ (expDigits = <<>> \/ ~AllDigits(expDigits))
        THEN ScanError
        ELSE [err |-> FALSE, inf |-> FALSE, neg |-> neg,
              digits |-> int \o frac,
              scale |-> (IF e = 0 THEN 0 ELSE expVal) - Len(frac)]

\* (*big.Float).IsInt: zero, or no digit that is not 0 lies behind the
\* point.
IsInt(n) ==
    /\ ~n.inf
    /\ \/ n.scale >= 0
       \/ StripZeros(n.digits) = <<"0">>
       \/ /\ 0 - n.scale <= Len(n.digits)
          /\ \A i \in (Len(n.digits) + n.scale + 1)..Len(n.digits) :
                n.digits[i] = "0"

\* The digits of the whole number n is, without its sign.
Magnitude(n) ==
    IF StripZeros(n.digits) = <<"0">> THEN <<"0">>
    ELSE IF n.scale >= 0 THEN StripZeros(n.digits \o Zeros(n.scale))
    ELSE StripZeros(SubSeq(n.digits, 1, Len(n.digits) + n.scale))

\* a > b for two whole numbers without leading zeros.
Greater(a, b) ==
    \/ Len(a) > Len(b)
    \/ /\ Len(a) = Len(b)
       /\ \E i \in 1..Len(a) :
             /\ DigitVal(a[i]) > DigitVal(b[i])
             /\ \A j \in 1..(i - 1) : a[j] = b[j]

MaxInt64 == <<"9", "2", "2", "3", "3", "7", "2", "0", "3", "6", "8", "5",
              "4", "7", "7", "5", "8", "0", "7">>

MinInt64 == <<"-", "9", "2", "2", "3", "3", "7", "2", "0", "3", "6", "8", "5",
              "4", "7", "7", "5", "8", "0", "8">>

\* (*big.Float).Int64 and int(i): the whole number, or the nearest end of
\* the int64 range for one outside it; %d of the result.
Int64(n) ==
    LET m == Magnitude(n)
    IN  IF m = <<"0">> THEN m
        ELSE IF ~n.neg
        THEN (IF Greater(m, MaxInt64) THEN MaxInt64 ELSE m)
        ELSE (IF Greater(m, Tail(MinInt64)) THEN MinInt64 ELSE <<"-">> \o m)

\* (*big.Float).Float64 up to the rounding to 53 bits: the sign, the
\* digits from the first to the last that is not 0, and the power of ten.
Float64(n) ==
    IF n.inf THEN (IF n.neg THEN <<"-">> ELSE <<"+">>) \o <<"I", "n", "f">>
    ELSE LET d == StripZeros(n.digits)
             last == CHOOSE i \in 1..Len(d) :
                        /\ d[i] # "0"
                        /\ \A j \in (i + 1)..Len(d) : d[j] = "0"
             scale == n.scale + Len(d) - last
         IN  (IF n.neg THEN <<"-">> ELSE <<>>) \o SubSeq(d, 1, last)
             \o <<"e">> \o (IF scale < 0 THEN <<"-">> \o Decimal(0 - scale)
                             ELSE Decimal(scale))

AdaptType(tok) ==
    LET n == ScanFloat(tok)
    IN  IF n.err THEN [kind |-> "string", text |-> tok]
        ELSE IF IsInt(n) THEN [kind |-> "int", text |-> Int64(n)]
        ELSE [kind |-> "float", text |-> Float64(n)]

\* ------------------------------------------------------------------------
\* The hash commands (internal/modules/hash/commands.go) as the dispatcher
\* runs them one at a time for a single connection without a memory limit:
\* no lock is contended, CreateKeyAndLock and SetValue do not fail.

hset == <<"h", "s", "e", "t">>

hdel == <<"h", "d", "e", "l">>

\* Commands(): the categories each hash command is registered with.
Categories(name) ==
    IF name = hset THEN {"hash", "write", "fast"}
    ELSE IF name = hdel THEN {"hash", "read", "fast"}
    ELSE {}

Registered(name) == name \in {hset, hdel}

\* IsWriteCommand (without subcommands)
IsWriteCommand(name) == "write" \in Categories(name)

NoHash == [present |-> FALSE, fields |-> {}]

\* entries: the last value given for each field, through AdaptType.
Entries(cmd) ==
    {<<cmd[i], AdaptType(cmd[i + 1])>> :
        i \in {j \in 3..(Len(cmd) - 1) :
                 /\ j % 2 = 1
                 /\ ~ \E l \in (j + 1)..(Len(cmd) - 1) : l % 2 = 1 /\ cmd[l] = cmd[j]}}

FieldsOf(entries) == {e[1] : e \in entries}

\* HSET key field value [field value ...]
handleHSET(st, cmd) ==
    LET key == cmd[2] IN
    IF (Len(cmd) - 2) % 2 # 0 THEN st
    ELSE IF ~st[key].present
    THEN [st EXCEPT ![key] = [present |-> TRUE, fields |-> Entries(cmd)]]
    ELSE [st EXCEPT ![key].fields =
             {e \in @ : e[1] \notin FieldsOf(Entries(cmd))} \cup Entries(cmd)]

\* HDEL key field [field ...]
handleHDEL(st, cmd) ==
    LET key == cmd[2]
        fields == {cmd[i] : i \in 3..Len(cmd)}
    IN  IF ~st[key].present THEN st
        ELSE [st EXCEPT ![key].fields = {e \in @ : e[1] \notin fields}]

\* ------------------------------------------------------------------------
\* The dispatcher, for a command that arrives as the bytes raw: parse, look
\* the command up, extract its keys, run the handler; append raw to the log
\* when the command is registered with the write category and the call is
\* not a replay.

KeyExtractionFails(cmd) ==
    \/ cmd[1] = hset /\ Len(cmd) < 4
    \/ cmd[1] = hdel /\ Len(cmd) < 3

Runs(raw) ==
    LET d == Decode(raw) IN
    ~d.err /\ d.cmd # <<>> /\ Registered(d.cmd[1]) /\ ~KeyExtractionFails(d.cmd)

\* The store after the handler of raw has run on st.
Dispatch(st, raw) ==
    LET cmd == Decode(raw).cmd IN
    IF ~Runs(raw) THEN st
    ELSE IF cmd[1] = hset THEN handleHSET(st, cmd)
    ELSE handleHDEL(st, cmd)

Appends(raw, replay) == Runs(raw) /\ IsWriteCommand(Decode(raw).cmd[1]) /\ ~replay

\* The replay argument of the function NewEchoVault hands to the AOF
\* engine: handleCommand(context.Background(), command, nil, true).
ReplayFlagDropped == FALSE

ReplayFlag == TRUE

\* ------------------------------------------------------------------------
\* AppendStore (internal/modules/hash/commands.go, package log)

AofThreads == {"conn", "syncer"}

HashKeys == {<<"h">>}

HashFields == {<<"f">>, <<>>}

HashValues == {<<"v">>, <<"1">>, <<>>}

\* What a client sends: HSET key field value and HDEL key field.
ClientCommands ==
    {<<hset, k, f, v>> : k \in HashKeys, f \in HashFields, v \in HashValues}
    \cup {<<hdel, k, f>> : k \in HashKeys, f \in HashFields}

Strategies == {"always", "everysec", "no"}

NoPending == [command |-> <<>>, ret |-> "-"]

AofOnly(pc) ==
    /\ aofpc' = pc
    /\ UNCHANGED <<ksVars, evVars, aclVars, stVars, utVars>>

\* A connection's command, handled with replay = false up to the call of
\* Write for a command that is to be logged.
handleCommand ==
    /\ aofpc["conn"] = "serve"
    /\ Len(issued) < MaxCmds
    /\ \E c \in ClientCommands :
          LET raw == EncodeCommand(c) IN
          /\ issued' = Append(issued, c)
          /\ hashes' = Dispatch(hashes, raw)
          /\ IF Appends(raw, FALSE)
             THEN /\ pending' = [command |-> raw, ret |-> "serve"]
                  /\ AofOnly([aofpc EXCEPT !["conn"] = "Write_lock"])
             ELSE /\ UNCHANGED pending
                  /\ AofOnly(aofpc)
    /\ UNCHANGED <<rw, synced, mut, strategy, written, restored, commands, calls,
                   cut, rwBefore>>

\* Write: store.mut.Lock()
Write_lock ==
    /\ aofpc["conn"] = "Write_lock"
    /\ mut = NoThread
    /\ mut' = "conn"
    /\ AofOnly([aofpc EXCEPT !["conn"] = "Write_append"])
    /\ UNCHANGED <<rw, synced, strategy, pending, issued, written, hashes, restored,
                   commands, calls, cut, rwBefore>>

\* Write: rw.Write(command + "\r\n"); with strategy always the call of
\* store.Sync() follows, the mutex still held; otherwise Write returns and
\* its deferred Unlock runs.
Write_append ==
    /\ aofpc["conn"] = "Write_append"
    /\ rw' = rw \o pending.command \o CRLF
    /\ written' = Append(written, pending.command \o CRLF)
    /\ IF strategy = "always"
       THEN /\ AofOnly([aofpc EXCEPT !["conn"] = "Sync_lock"])
            /\ UNCHANGED <<mut, pending>>
       ELSE /\ mut' = NoThread
            /\ pending' = NoPending
            /\ AofOnly([aofpc EXCEPT !["conn"] = pending.ret])
    /\ UNCHANGED <<synced, strategy, issued, hashes, restored, commands, calls, cut,
                   rwBefore>>

\* Sync: store.mut.Lock(), by the syncer goroutine or from inside Write.
Sync_lock ==
    \E who \in AofThreads :
        /\ aofpc[who] = "Sync_lock"
        /\ mut = NoThread
        /\ mut' = who
        /\ AofOnly([aofpc EXCEPT ![who] = "Sync_sync"])
        /\ UNCHANGED <<rw, synced, strategy, pending, issued, written, hashes,
                       restored, commands, calls, cut, rwBefore>>

\* Sync: rw.Sync() and the deferred Unlock.  The syncer sleeps next; a
\* Write that got here would run its own deferred Unlock on the mutex Sync
\* has just unlocked, which stops the process.
Sync_sync ==
    \E who \in AofThreads :
        /\ aofpc[who] = "Sync_sync"
        /\ synced' = Len(rw)
        /\ mut' = NoThread
        /\ AofOnly([aofpc EXCEPT ![who] = IF who = "syncer" THEN "sleep" ELSE "fatal"])
        /\ UNCHANGED <<rw, strategy, pending, issued, written, hashes, restored,
                       commands, calls, cut, rwBefore>>

\* The syncer goroutine of NewAppendStore (strategy everysec): after a
\* second it calls Sync again.
Syncer_After ==
    /\ aofpc["syncer"] = "sleep"
    /\ AofOnly([aofpc EXCEPT !["syncer"] = "Sync_lock"])
    /\ UNCHANGED <<rw, synced, mut, strategy, pending, issued, written, hashes,
                   restored, commands, calls, cut, rwBefore>>

\* bufio.Reader.ReadLine over the whole file: the lines without their
\* "\n" or "\r\n"; bytes after the last "\n" are a line of their own.
DropCR(l) == IF l # <<>> /\ l[Len(l)] = CR THEN SubSeq(l, 1, Len(l) - 1) ELSE l

RECURSIVE ReadLines(_, _, _)
ReadLines(b, cur, acc) ==
    IF b = <<>> THEN (IF cur = <<>> THEN acc ELSE Append(acc, cur))
    ELSE IF Head(b) = LF THEN ReadLines(Tail(b), <<>>, Append(acc, DropCR(cur)))
    ELSE ReadLines(Tail(b), Append(cur, Head(b)), acc)

\* bytes.TrimLeft(b, "\x00")
RECURSIVE TrimLeft(_)
TrimLeft(b) == IF b # <<>> /\ Head(b) = NUL THEN TrimLeft(Tail(b)) ELSE b

\* Restore's read loop: an empty line ends a command, which gets
\* "\r\n\r\n" appended; other lines are joined with "\r\n".  What is left
\* in line at the end of the file is dropped.
RECURSIVE RestoreLoop(_, _, _)
RestoreLoop(lines, line, cmds) ==
    IF lines = <<>> THEN cmds
    ELSE LET b == Head(lines) IN
         IF b = <<>>
         THEN RestoreLoop(Tail(lines), <<>>, Append(cmds, line \o CRLF \o CRLF))
         ELSE IF line # <<>>
         THEN RestoreLoop(Tail(lines), line \o CRLF \o TrimLeft(b), cmds)
         ELSE RestoreLoop(Tail(lines), TrimLeft(b), cmds)

\* The process stops between two commands and starts again on the log it
\* left, whole or with its final record cut short; Restore is called.
Restart ==
    /\ aofpc["conn"] = "serve"
    /\ \E n \in 0..Len(rw) :
          /\ \/ n = Len(rw)
             \/ written # <<>> /\ n > Len(rw) - Len(written[Len(written)])
          /\ rw' = SubSeq(rw, 1, n)
          /\ rwBefore' = SubSeq(rw, 1, n)
          /\ cut' = (n < Len(rw))
          /\ synced' = IF synced > n THEN n ELSE synced
    /\ mut' = NoThread
    /\ AofOnly([conn |-> "Restore_lock",
                syncer |-> IF strategy = "everysec" THEN "Sync_lock" ELSE "off"])
    /\ UNCHANGED <<strategy, pending, issued, written, hashes, restored, commands,
                   calls>>

\* Restore: store.mut.Lock()
Restore_lock ==
    /\ aofpc["conn"] = "Restore_lock"
    /\ mut = NoThread
    /\ mut' = "conn"
    /\ AofOnly([aofpc EXCEPT !["conn"] = "Restore_read"])
    /\ UNCHANGED <<rw, synced, strategy, pending, issued, written, hashes, restored,
                   commands, calls, cut, rwBefore>>

\* Restore: the read loop up to io.EOF
Restore_read ==
    /\ aofpc["conn"] = "Restore_read"
    /\ commands' = RestoreLoop(ReadLines(rw, <<>>, <<>>), <<>>, <<>>)
    /\ AofOnly([aofpc EXCEPT !["conn"] = "Restore_dispatch"])
    /\ UNCHANGED <<rw, synced, mut, strategy, pending, issued, written, hashes,
                   restored, calls, cut, rwBefore>>

\* Restore: store.handleCommand(c) for the next command of the list
Restore_dispatch ==
    /\ aofpc["conn"] = "Restore_dispatch"
    /\ commands # <<>>
    /\ LET c == Head(commands) IN
       /\ calls' = Append(calls, [command |-> c, replay |-> ReplayFlag])
       /\ restored' = Dispatch(restored, c)
       /\ commands' = Tail(commands)
       /\ IF Appends(c, ReplayFlag)
          THEN /\ pending' = [command |-> c, ret |-> "Restore_dispatch"]
               /\ AofOnly([aofpc EXCEPT !["conn"] = "Write_lock"])
          ELSE /\ UNCHANGED pending
               /\ AofOnly(aofpc)
    /\ UNCHANGED <<rw, synced, mut, strategy, issued, written, hashes, cut, rwBefore>>

\* Restore: return nil and the deferred Unlock
Restore_return ==
    /\ aofpc["conn"] = "Restore_dispatch"
    /\ commands = <<>>
    /\ mut' = NoThread
    /\ AofOnly([aofpc EXCEPT !["conn"] = "restored"])
    /\ UNCHANGED <<rw, synced, strategy, pending, issued, written, hashes, restored,
                   commands, calls, cut, rwBefore>>

NoHashes == [k \in HashKeys |-> NoHash]

\* A new AppendStore over an empty file, serving an empty store.
InitAppendStore(strategies) ==
    /\ rw = <<>>
    /\ synced = 0
    /\ mut = NoThread
    /\ strategy \in strategies
    /\ aofpc = [conn |-> "serve",
                syncer |-> IF strategy = "everysec" THEN "Sync_lock" ELSE "off"]
    /\ pending = NoPending
    /\ issued = <<>>
    /\ written = <<>>
    /\ hashes = NoHashes
    /\ restored = NoHashes
    /\ commands = <<>>
    /\ calls = <<>>
    /\ cut = FALSE
    /\ rwBefore = <<>>

\* ------------------------------------------------------------------------
\* The keyspace specifications

\* The context of a connection is cancelled when the connection goes away;
\* a handler notices only inside KeyLock or KeyRLock.  The restore function
\* runs under context.Background(), which is never cancelled.
Cancel(t) ==
    /\ ~fatal
    /\ ~ctxDone[t]
    /\ th[t].cmd.op # "setkeydata"
    /\ th[t].pc \in {"KeyLock", "KeyRLock", "ckl_KeyLock", "amu_KeyLock"}
    /\ ctxDone' = [ctxDone EXCEPT ![t] = TRUE]
    /\ UNCHANGED <<keyLocks, keyCreationLock, store, config, th, held, fatal, aofVars, aclVars, stVars, utVars, evVars>>

\* ------------------------------------------------------------------------
\* ACL (package acl, in src/modules/set/commant_test.go)

Conns == {"c1", "c2"}

Usernames == {"default", "alice"}

\* The password of the configuration and of the users of the ACL file, and
\* a password no user has.
Passwords == {"pw", "bad"}

\* CreateUser: an enabled user that is allowed all. Whether the user it
\* returns needs a password is not in the code at hand: both are taken.
CreateUser(noPassword) ==
    [Enabled |-> TRUE, NoPassword |-> noPassword, Passwords |-> {},
     IncludedCategories |-> {"*"}, ExcludedCategories |-> {},
     IncludedCommands |-> {"*"}, ExcludedCommands |-> {},
     IncludedKeys |-> {"*"}, IncludedReadKeys |-> {"*"},
     IncludedWriteKeys |-> {"*"}]

\* NewACL, step 1: the default user it creates, with the configured
\* password when RequirePass is set.
CreatedDefault(required) ==
    IF required
    THEN {[CreateUser(FALSE) EXCEPT !.Passwords = {"pw"}]}
    ELSE {CreateUser(np) : np \in BOOLEAN}

\* NewACL, step 2: the users an ACL file can hold.
LoadedUsers ==
    [Enabled : BOOLEAN, NoPassword : BOOLEAN, Passwords : {{"pw"}},
     IncludedCategories : {{"*"}, {"read"}},
     ExcludedCategories : {{}, {"write"}},
     IncludedCommands : {{"*"}}, ExcludedCommands : {{}},
     IncludedKeys : {{"*"}, {"a"}},
     IncludedReadKeys : {{"*"}, {"a"}},
     IncludedWriteKeys : {{"*"}, {"a"}}]

\* NewACL, step 3: the created default user is added only if the file
\* holds no user named default; a default user of the file stands as it
\* was loaded, whatever RequirePass says.
LoadedDefaults ==
    {u \in LoadedUsers :
        /\ u.Enabled
        /\ u.IncludedCategories = {"*"} /\ u.ExcludedCategories = {}
        /\ u.IncludedKeys = {"*"} /\ u.IncludedReadKeys = {"*"}
        /\ u.IncludedWriteKeys = {"*"}}

NewACL(required) ==
    {us \in [Usernames -> CreatedDefault(required) \cup LoadedUsers] :
        /\ us["default"] \in CreatedDefault(required) \cup LoadedDefaults
        /\ us["alice"] \in LoadedUsers}

\* The zero Connection of a connection that is not in acl.Connections.
NoConnection == [Registered |-> FALSE, Authenticated |-> FALSE, User |-> "-"]

\* A command as AuthorizeConnection gets it: its name, its categories and
\* the keys its KeyExtractionFunc returns.
AclCommand(name, cats, keysets) ==
    [Command : {name}, Categories : {cats}, Keys : keysets]

AclCommands ==
    AclCommand("auth", {"connection", "slow"}, {{}})
    \cup AclCommand("sadd", {"set", "write", "fast"}, {{k} : k \in Keys})
    \cup AclCommand("sdiff", {"set", "read", "slow"}, (SUBSET Keys) \ {{}})

\* The latest call of AuthorizeConnection: its connection, the user of the
\* connection, the command, the error, and (Authed) whether the connection
\* had completed a successful AUTH by then.
NoAuthorization ==
    [Conn |-> "-", User |-> "-", Cmd |-> "-", Err |-> "-", Authed |-> FALSE]

\* slices.ContainsFunc(items, ... slices.ContainsFunc(list, "*" or the
\* item)): some item is matched by some entry of the list.
ContainsAny(items, list) ==
    \E i \in items : \E e \in list : e = "*" \/ e = i

\* AuthorizeConnection without the early return for AUTH.
AuthorizeAuthAsAnyCommand(c, cmd) ==
    LET connection == aclConnections[c]
        user == aclUsers[connection.User]
    IN  IF requirePass /\ ~connection.Authenticated
        THEN "user must be authenticated"
        ELSE IF ~ContainsAny(cmd.Categories, user.IncludedCategories)
        THEN "unauthorized access to the following categories"
        ELSE IF ContainsAny(cmd.Categories, user.ExcludedCategories)
        THEN "unauthorized access to the following categories"
        ELSE "nil"

\* AuthorizeConnection: the error it returns, "nil" for none.
Authorize(c, cmd) ==
    LET connection == aclConnections[c]
        user == aclUsers[connection.User]
        keys == cmd.Keys
        categories == cmd.Categories
    IN  IF cmd.Command = "auth" THEN "nil"
        ELSE IF requirePass /\ ~connection.Authenticated
        THEN "user must be authenticated"
        ELSE IF ~ContainsAny(categories, user.IncludedCategories)
        THEN "unauthorized access to the following categories"
        ELSE IF ContainsAny(categories, user.ExcludedCategories)
        THEN "unauthorized access to the following categories"
        ELSE IF ~ContainsAny({cmd.Command}, user.IncludedCommands)
        THEN "not authorised to run command"
        ELSE IF ContainsAny({cmd.Command}, user.ExcludedCommands)
        THEN "not authorised to run command"
        ELSE IF keys # {} /\ ~ContainsAny(keys, user.IncludedKeys)
        THEN "not authorised to access the following keys"
        ELSE IF /\ keys # {}
                /\ "read" \in categories
                /\ ~ContainsAny(keys, user.IncludedReadKeys)
        THEN "not authorised to access the following keys"
        ELSE IF /\ keys # {}
                /\ "write" \in categories
                /\ ~ContainsAny(keys, user.IncludedWriteKeys)
        THEN "not authorised to access the following keys"
        ELSE "nil"

AclOnly ==
    UNCHANGED <<ksVars, aofVars, evVars, stVars, utVars, aclUsers, requirePass,
                aclNames, aclCall>>

\* RegisterConnection: a new connection gets the default user and is
\* authenticated if that user needs no password.
RegisterConnection(c) ==
    /\ ~aclConnections[c].Registered
    /\ aclConnections' =
          [aclConnections EXCEPT ![c] =
              [Registered |-> TRUE,
               Authenticated |-> aclUsers["default"].NoPassword,
               User |-> "default"]]
    /\ UNCHANGED <<authorized, authed, auth>>
    /\ AclOnly

\* The usernames the calls name: the two of the ACL and one no user has.
UserArgs == Usernames \cup {"ghost"}

In(name, users) == \E i \in 1..Len(users) : users[i] = name

\* No AuthenticateConnection call yet.
NoAuth == [conn |-> "-", name |-> "-", err |-> "-"]

\* The error AuthenticateConnection returns for a username and a password:
\* the user is looked up in acl.Users, must be enabled, and needs a
\* matching password unless it is a NoPassword user.
AuthError(name, password) ==
    IF ~In(name, aclNames) THEN "no user with username"
    ELSE IF ~aclUsers[name].Enabled THEN "user is disabled"
    ELSE IF aclUsers[name].NoPassword \/ password \in aclUsers[name].Passwords
    THEN "nil"
    ELSE "could not authenticate user"

\* AuthenticateConnection marking every registered connection, not the
\* caller's alone.
AuthenticateConnectionShared(c, name, password) ==
    /\ aclConnections[c].Registered
    /\ LET ok == AuthError(name, password) = "nil"
       IN  /\ aclConnections' =
                 IF ok
                 THEN [d \in Conns |->
                         IF aclConnections[d].Registered
                         THEN [aclConnections[d] EXCEPT
                                 !.Authenticated = TRUE, !.User = name]
                         ELSE aclConnections[d]]
                 ELSE aclConnections
           /\ authed' = IF ok THEN authed \cup {c} ELSE authed
    /\ UNCHANGED <<authorized, auth>>
    /\ AclOnly

\* The writes to acl.Connections that give the connection the user as
\* soon as it is found, before the user is tested and the passwords are
\* compared.
AuthenticatedUserFirst(c, name, password) ==
    IF In(name, aclNames)
    THEN [aclConnections EXCEPT
            ![c].Authenticated = (AuthError(name, password) = "nil"),
            ![c].User = name]
    ELSE aclConnections

\* acl.Connections after AuthenticateConnection: the connection gets the
\* user and Authenticated = true where the call returns nil (a NoPassword
\* user, or a matching password); every return of an error comes before
\* any write.
Authenticated(c, name, password) ==
    IF AuthError(name, password) = "nil"
    THEN [aclConnections EXCEPT ![c].Authenticated = TRUE, ![c].User = name]
    ELSE aclConnections

\* AuthenticateConnection for AUTH <password> (name = "default") and AUTH
\* <username> <password>.
AuthenticateConnection(c, name, password) ==
    /\ aclConnections[c].Registered
    /\ aclConnections' = Authenticated(c, name, password)
    /\ authed' = IF AuthError(name, password) = "nil" THEN authed \cup {c}
                 ELSE authed
    /\ UNCHANGED <<authorized, auth>>
    /\ AclOnly

\* AuthenticateConnection with the error it returns kept for the
\* connection.
AuthenticateConnection_call(c, name, password) ==
    /\ aclConnections[c].Registered
    /\ aclConnections' = Authenticated(c, name, password)
    /\ authed' = IF AuthError(name, password) = "nil" THEN authed \cup {c}
                 ELSE authed
    /\ auth' = [conn |-> c, name |-> name, err |-> AuthError(name, password)]
    /\ UNCHANGED authorized
    /\ AclOnly

\* AuthorizeConnection, as the dispatcher calls it for a command of a
\* registered connection.
AuthorizeConnection(c, cmd) ==
    /\ aclConnections[c].Registered
    /\ authorized' = [Conn |-> c, User |-> aclConnections[c].User,
                      Cmd |-> cmd, Err |-> Authorize(c, cmd),
                      Authed |-> c \in authed]
    /\ UNCHANGED <<aclConnections, authed, auth>>
    /\ AclOnly

\* ------------------------------------------------------------------------
\* ACL users (SetUser, DeleteUser)

\* The longest list of usernames a DeleteUser call names.
MaxDeleted == 2

NoCall == [op |-> "-", names |-> <<>>, before |-> <<>>]

\* Go's nil *User.
NilUser == "nil"

\* utils.Filter(acl.Users, u.Username != name).
FilterOut(users, name) == SelectSeq(users, LAMBDA u : u # name)

\* DeleteUser's loop without the test that skips the default user.
RECURSIVE DeleteUserLoopDefaultToo(_, _, _, _)
DeleteUserLoopDefaultToo(usernames, i, users, user) ==
    IF i > Len(usernames) THEN [users |-> users, panic |-> FALSE]
    ELSE LET username == usernames[i]
             found == IF In(username, users) THEN username ELSE user
         IN  IF found = NilUser
             THEN [users |-> users, panic |-> TRUE]
             ELSE IF username # found
             THEN DeleteUserLoopDefaultToo(usernames, i + 1, users, found)
             ELSE DeleteUserLoopDefaultToo(usernames, i + 1,
                                           FilterOut(users, found), found)

\* DeleteUser's loop from the i-th username on, with the list as it is by
\* then and the local variable user, which keeps the user an earlier round
\* found: the list it ends with, and whether it ended in the nil
\* dereference of user.Username.
RECURSIVE DeleteUserLoop(_, _, _, _)
DeleteUserLoop(usernames, i, users, user) ==
    IF i > Len(usernames) THEN [users |-> users, panic |-> FALSE]
    ELSE LET username == usernames[i]
             found == IF In(username, users) THEN username ELSE user
         IN  IF username = "default"
             THEN DeleteUserLoop(usernames, i + 1, users, user)
             ELSE IF found = NilUser
             THEN [users |-> users, panic |-> TRUE]
             ELSE IF username # found
             THEN DeleteUserLoop(usernames, i + 1, users, found)
             ELSE DeleteUserLoop(usernames, i + 1,
                                 FilterOut(users, found), found)

\* SetUser: a user of that name in the list is updated in place; else a
\* user is created, updated, and appended to the list.  An update that
\* returns an error leaves the list as it was.
SetUser(name) ==
    /\ ~fatal
    /\ \E u \in LoadedUsers, err \in BOOLEAN :
          /\ u.IncludedKeys = {"*"} /\ u.IncludedReadKeys = {"*"}
          /\ u.IncludedWriteKeys = {"*"} /\ u.ExcludedCategories = {}
          /\ aclUsers' = IF err THEN aclUsers
                         ELSE [aclUsers EXCEPT ![name] = u]
          /\ aclNames' = IF err \/ In(name, aclNames) THEN aclNames
                         ELSE Append(aclNames, name)
    /\ aclCall' = [op |-> "SetUser", names |-> <<name>>, before |-> aclNames]
    /\ UNCHANGED <<keyLocks, keyCreationLock, store, config, th, held,
                   ctxDone, fatal>>
    /\ UNCHANGED <<aofVars, evVars, stVars, utVars, aclConnections, requirePass,
                   authorized, authed, auth>>

\* DeleteUser: the whole loop over the usernames it is given.  The nil
\* dereference stops the process with the deletions made so far in place.
DeleteUser(usernames) ==
    /\ ~fatal
    /\ LET end == DeleteUserLoop(usernames, 1, aclNames, NilUser)
       IN  /\ aclNames' = end.users
           /\ fatal' = end.panic
    /\ aclCall' = [op |-> "DeleteUser", names |-> usernames,
                   before |-> aclNames]
    /\ UNCHANGED <<keyLocks, keyCreationLock, store, config, th, held,
                   ctxDone>>
    /\ UNCHANGED <<aofVars, evVars, stVars, utVars, aclUsers, aclConnections,
                   requirePass, authorized, authed, auth>>

\* An ACL nobody has connected to.
InitNoACL ==
    /\ requirePass = FALSE
    /\ aclUsers = [u \in Usernames |-> CreateUser(TRUE)]
    /\ aclConnections = [c \in Conns |-> NoConnection]
    /\ authorized = NoAuthorization
    /\ authed = {}
    /\ auth = NoAuth
    /\ aclNames = <<"default", "alice">>
    /\ aclCall = NoCall

\* ------------------------------------------------------------------------
\* The state copy and the AOF rewrite flag (GetState, RewriteAOF)

\* The goroutines that call GetState: the snapshot, and the rewrite that
\* the BGREWRITEAOF of a connection starts.
Copiers == {"snapshot"} \cup Conns

\* A goroutine: where it is, what RewriteAOF or TakeSnapshot returned to
\* its caller, whether it runs the snapshot engine (snap) or the AOF
\* engine, the map GetState built (data), and (was) the members each
\* key's value had when GetState returned.
IdleCopier ==
    [pc |-> "idle", res |-> "-", snap |-> FALSE,
     data |-> [k \in Keys |-> NoValue], was |-> [k \in Keys |-> {}]]

\* No reply is on its way out and no function of package utils is called.
NoReply == [pc |-> "-", res |-> <<>>, startIndex |-> 0, chunks |-> <<>>,
            full |-> TRUE]

NoUtil == [fn |-> "-", arg |-> <<>>, done |-> FALSE, err |-> FALSE,
           kind |-> "-", val |-> <<>>]

InitNoUtils ==
    /\ reply = NoReply
    /\ util = NoUtil

\* The flags of a new server, no goroutine copying the state.
InitNoCopy ==
    /\ stateCopyInProgress = FALSE
    /\ stateMutationInProgress = FALSE
    /\ rewriteAOFInProgress = FALSE
    /\ snapshotInProgress = FALSE
    /\ bg = [c \in Copiers |-> IdleCopier]

InitNoState ==
    /\ InitNoCopy
    /\ InitNoUtils

SrcLists == UNION {[1..n -> Keys] : n \in 1..MaxSrcKeys}

Cmd(op, dsts, srcs, mems) ==
    [op : {op}, dst : dsts, srcs : srcs, mem : mems, at : {0}]

\* A command on one key that carries an expiry time.
ExpiryCmd(op, dsts, ats) ==
    [op : {op}, dst : dsts, srcs : {<<>>}, mem : {{}}, at : ats]

SingleKeyCommands ==
    Cmd("sadd", Keys, {<<>>}, {{"x"}, {"y"}})
    \cup Cmd("scard", Keys, {<<>>}, {{}})
    \cup Cmd("smove", Keys, [1..1 -> Keys], {{"x"}})
    \cup Cmd("setkeydata", Keys, {<<>>}, {{}})

MultiKeyCommands ==
    Cmd("sinter", {NoKey}, SrcLists, {{}})
    \cup Cmd("sinterstore", Keys, SrcLists, {{}})
    \cup Cmd("sunionstore", Keys, SrcLists, {{}})
    \cup Cmd("sdiff", {NoKey}, SrcLists, {{}})
    \cup Cmd("sdiffstore", Keys, SrcLists, {{}})

\* A key as the tests preset it (CreateKeyAndLock, SetValue, KeyUnlock):
\* absent, a set, or a value that is not a set.
Presets == {"absent", "set", "string"}

PresetLock(p) == IF p = "absent" THEN NoLock ELSE [exists |-> TRUE, w |-> FALSE, r |-> 0]

PresetValue(p, k) ==
    IF p = "absent" THEN NoValue
    ELSE IF p = "set" THEN SetValueOf({"x"}, k) ELSE StringValue

NoLimit == [maxMemory |-> FALSE, policy |-> "noeviction"]

LimitNoEviction == [maxMemory |-> TRUE, policy |-> "noeviction"]

LimitAllKeysRandom == [maxMemory |-> TRUE, policy |-> "allkeys-random"]

Started(c) == [IdleThread EXCEPT !.pc = "start", !.cmd = c]

InitKeyspace(configs, cmds1, cmds2) ==
    /\ \E p \in [Keys -> Presets] :
          /\ keyLocks = [k \in Keys |-> PresetLock(p[k])]
          /\ store = [k \in Keys |-> PresetValue(p[k], k)]
    /\ keyCreationLock = NoThread
    /\ config \in configs
    /\ \E c1 \in cmds1, c2 \in cmds2 :
          th = [t \in Threads |-> Started(IF t = "t1" THEN c1 ELSE c2)]
    /\ held = [t \in Threads |-> [k \in Keys |-> [w |-> 0, r |-> 0]]]
    /\ ctxDone = [t \in Threads |-> FALSE]
    /\ fatal = FALSE
    /\ InitAppendStore({"no"})
    /\ InitNoACL
    /\ InitNoState

\* A server that has set no expiry and touched no cache, at time 1.
InitNoExpiry ==
    /\ keyExpiry = [k \in Keys |-> NoExpiry]
    /\ lfuCache = EmptyLFU
    /\ lruCache = EmptyLRU
    /\ now = 1
    /\ swept = FALSE
    /\ accessed = <<>>

Keyspace(t) ==
    \/ KeyLock(t)
    \/ KeyRLock(t)
    \/ CreateKeyAndLock(t)
    \/ CreateKeyAndLock_KeyLock(t)
    \/ SetValue(t)
    \/ GetValue(t)
    \/ RunDefers(t)
    \/ Cancel(t)

Eviction(t) ==
    \/ GetValue_read(t)
    \/ adjustMemoryUsage(t)
    \/ adjustMemoryUsage_pick(t)
    \/ adjustMemoryUsage_KeyLock(t)
    \/ adjustMemoryUsage_delete_keyLocks(t)
    \/ adjustMemoryUsage_delete_store(t)
    \/ adjustMemoryUsage_delete_keyExpiry(t)

\* Two connections, each running one single-key command or SMOVE, or the
\* restore function, under every memory configuration.
Init ==
    /\ InitKeyspace({NoLimit, LimitNoEviction, LimitAllKeysRandom},
                    SingleKeyCommands, SingleKeyCommands)
    /\ InitNoExpiry

Next ==
    \E t \in Threads :
        \/ Keyspace(t)
        \/ Eviction(t)
        \/ handleSADD(t)
        \/ handleSCARD(t)
        \/ handleSMOVE(t)
        \/ SetKeyData(t)
        \/ SetKeyExpiry(t)

Spec == Init /\ [][Next]_vars

\* One connection running a multi-key set command while another runs SADD,
\* without a memory limit and with a limit under noeviction.
InitMultiKey ==
    /\ InitKeyspace({NoLimit, LimitNoEviction}, MultiKeyCommands,
                    Cmd("sadd", Keys, {<<>>}, {{"y"}}))
    /\ InitNoExpiry

NextMultiKey ==
    \E t \in Threads :
        \/ Keyspace(t)
        \/ handleSADD(t)
        \/ handleSINTER(t)
        \/ handleSINTERSTORE(t)
        \/ handleSUNIONSTORE(t)
        \/ handleSDIFF(t)
        \/ handleSDIFFSTORE(t)

SpecMultiKey == InitMultiKey /\ [][NextMultiKey]_vars

\* Two connections, each running SADD, SCARD, EXPIRE, PERSIST or the restore
\* function once, over a keyspace in which the keys are absent, without
\* expiry or with one of two expiry times, under a memory limit and a
\* policy that evicts.
LimitAllKeysLRU == [maxMemory |-> TRUE, policy |-> "allkeys-lru"]

LimitAllKeysLFU == [maxMemory |-> TRUE, policy |-> "allkeys-lfu"]

LimitVolatileRandom == [maxMemory |-> TRUE, policy |-> "volatile-random"]

LimitVolatileTTL == [maxMemory |-> TRUE, policy |-> "volatile-ttl"]

\* The latest expiry time a command or a preset names.
MaxExpiry == 3

ExpiryPresets == {"absent", "plain", "soon", "late"}

PresetExpiry(p) ==
    IF p = "soon" THEN ExpiresAt(MaxExpiry - 1)
    ELSE IF p = "late" THEN ExpiresAt(MaxExpiry)
    ELSE NoExpiry

\* The orders in which the keys of ks can have been accessed last.
AccessOrders(ks) ==
    {q \in UNION {[1..n -> ks] : n \in 0..Cardinality(Keys)} :
        /\ Len(q) = Cardinality(ks)
        /\ \A i, j \in 1..Len(q) : i # j => q[i] # q[j]}

ExpiryCommands ==
    Cmd("sadd", Keys, {<<>>}, {{"y"}})
    \cup Cmd("scard", Keys, {<<>>}, {{}})
    \cup Cmd("persist", Keys, {<<>>}, {{}})
    \cup ExpiryCmd("expire", Keys, {MaxExpiry - 1})
    \cup ExpiryCmd("setkeydata", Keys, {0})

InitEviction ==
    /\ config \in {LimitAllKeysLRU, LimitAllKeysLFU, LimitVolatileRandom,
                    LimitVolatileTTL}
    /\ \E p \in [Keys -> ExpiryPresets] :
          LET present == {k \in Keys : p[k] # "absent"} IN
          /\ keyLocks = [k \in Keys |-> PresetLock(p[k])]
          /\ store = [k \in Keys |->
                        IF p[k] = "absent" THEN NoValue ELSE SetValueOf({"x"}, k)]
          /\ keyExpiry = [k \in Keys |-> PresetExpiry(p[k])]
          /\ accessed \in AccessOrders(present)
          /\ lruCache = [mutex |-> NoThread,
                         cache |-> IF config.policy \in LRUPolicies
                                   THEN accessed ELSE <<>>]
          /\ lfuCache = [mutex |-> NoThread,
                         cache |-> [k \in Keys |->
                                      IF config.policy \in LFUPolicies /\ k \in present
                                      THEN 1 ELSE 0]]
    /\ keyCreationLock = NoThread
    /\ \E c1, c2 \in ExpiryCommands :
          th = [t \in Threads |-> Started(IF t = "t1" THEN c1 ELSE c2)]
    /\ held = [t \in Threads |-> [k \in Keys |-> [w |-> 0, r |-> 0]]]
    /\ ctxDone = [t \in Threads |-> FALSE]
    /\ fatal = FALSE
    /\ now = 1
    /\ swept = FALSE
    /\ InitAppendStore({"no"})
    /\ InitNoACL
    /\ InitNoState

NextEviction ==
    \E t \in Threads :
        \/ Keyspace(t)
        \/ Eviction(t)
        \/ CacheMutexLock(t)
        \/ SetKeyExpiry(t)
        \/ RemoveKeyExpiry(t)
        \/ handleSADD(t)
        \/ handleSCARD(t)
        \/ handleExpire(t)
        \/ handlePersist(t)
        \/ SetKeyData(t)

SpecEviction == InitEviction /\ [][NextEviction]_vars

\* ------------------------------------------------------------------------
\* The cache specification: two connections, each running one of SADD,
\* SCARD, EXPIRE and PERSIST, under the four policies that keep a cache.
\* At the start the cache holds the keys the policy is to hold: every key
\* under an allkeys policy, the keys with a time to live under a volatile
\* one.

LimitVolatileLRU == [maxMemory |-> TRUE, policy |-> "volatile-lru"]

LimitVolatileLFU == [maxMemory |-> TRUE, policy |-> "volatile-lfu"]

CacheCommands ==
    Cmd("sadd", Keys, {<<>>}, {{"y"}})
    \cup Cmd("scard", Keys, {<<>>}, {{}})
    \cup Cmd("persist", Keys, {<<>>}, {{}})
    \cup ExpiryCmd("expire", Keys, {MaxExpiry})

InitCache ==
    /\ config \in {LimitAllKeysLRU, LimitAllKeysLFU, LimitVolatileLRU,
                    LimitVolatileLFU}
    /\ \E p \in [Keys -> {"absent", "plain", "soon"}] :
          LET present == {k \in Keys : p[k] # "absent"}
              cached == IF config.policy \in {"allkeys-lru", "allkeys-lfu"}
                        THEN present
                        ELSE {k \in Keys : p[k] = "soon"}
          IN
          /\ keyLocks = [k \in Keys |-> PresetLock(p[k])]
          /\ store = [k \in Keys |->
                        IF p[k] = "absent" THEN NoValue ELSE SetValueOf({"x"}, k)]
          /\ keyExpiry = [k \in Keys |-> PresetExpiry(p[k])]
          /\ accessed \in AccessOrders(present)
          /\ lruCache = [mutex |-> NoThread,
                         cache |-> IF config.policy \in LRUPolicies
                                   THEN SelectSeq(accessed,
                                                  LAMBDA k : k \in cached)
                                   ELSE <<>>]
          /\ lfuCache = [mutex |-> NoThread,
                         cache |-> [k \in Keys |->
                                      IF config.policy \in LFUPolicies /\ k \in cached
                                      THEN 1 ELSE 0]]
    /\ keyCreationLock = NoThread
    /\ \E c1, c2 \in CacheCommands :
          th = [t \in Threads |-> Started(IF t = "t1" THEN c1 ELSE c2)]
    /\ held = [t \in Threads |-> [k \in Keys |-> [w |-> 0, r |-> 0]]]
    /\ ctxDone = [t \in Threads |-> FALSE]
    /\ fatal = FALSE
    /\ now = 1
    /\ swept = FALSE
    /\ InitAppendStore({"no"})
    /\ InitNoACL
    /\ InitNoState

NextCache ==
    \E t \in Threads :
        \/ Keyspace(t)
        \/ GetValue_read(t)
        \/ adjustMemoryUsage(t)
        \/ CacheMutexLock(t)
        \/ SetKeyExpiry(t)
        \/ RemoveKeyExpiry(t)
        \/ handleSADD(t)
        \/ handleSCARD(t)
        \/ handleExpire(t)
        \/ handlePersist(t)

SpecCache == InitCache /\ [][NextCache]_vars

\* ------------------------------------------------------------------------
\* The clock and the TTL sweeper (echovault.go)

\* A TTL key whose time has passed.
Expired(k) == keyExpiry[k].has /\ keyExpiry[k].at # 0 /\ keyExpiry[k].at < now

\* One eviction interval passes.  NewEchoVault starts the sweeper goroutine
\* unless the policy is noeviction; where it runs, its call of
\* evictKeysWithExpiredTTL falls into every interval.
Tick ==
    /\ ~fatal
    /\ now <= MaxExpiry
    /\ config.policy = "noeviction" \/ swept
    /\ now' = now + 1
    /\ swept' = FALSE
    /\ UNCHANGED <<ksVars, aofVars, aclVars, stVars, utVars, keyExpiry, lfuCache, lruCache, accessed>>

\* evictKeysWithExpiredTTL: every key whose expiry has passed is
\* write-locked, which waits for the handlers holding it, and deleted.
evictKeysWithExpiredTTL ==
    /\ ~fatal
    /\ config.policy # "noeviction"
    /\ ~swept
    /\ LET gone == {k \in Keys : Expired(k)} IN
       /\ \A k \in gone : KeyExists(k) => ~keyLocks[k].w /\ keyLocks[k].r = 0
       /\ keyLocks' = [k \in Keys |-> IF k \in gone THEN NoLock ELSE keyLocks[k]]
       /\ store' = [k \in Keys |-> IF k \in gone THEN NoValue ELSE store[k]]
       /\ keyExpiry' = [k \in Keys |-> IF k \in gone THEN NoExpiry ELSE keyExpiry[k]]
    /\ swept' = TRUE
    /\ UNCHANGED <<keyCreationLock, config, th, held, ctxDone, fatal, aofVars, aclVars, stVars, utVars,
                   lfuCache, lruCache, now, accessed>>

\* Two connections, each running SADD or SCARD once, while the clock runs
\* past the expiry of the keys, without a memory limit, with a limit under
\* noeviction and under volatile-ttl.
TTLCommands ==
    Cmd("sadd", Keys, {<<>>}, {{"y"}}) \cup Cmd("scard", Keys, {<<>>}, {{}})

InitTTL ==
    /\ InitKeyspace({NoLimit, LimitNoEviction, LimitVolatileTTL},
                    TTLCommands, TTLCommands)
    /\ keyExpiry \in [Keys -> {NoExpiry, ExpiresAt(MaxExpiry - 1)}]
    /\ \A k \in Keys : keyExpiry[k].has => KeyExists(k)
    /\ lfuCache = EmptyLFU
    /\ lruCache = EmptyLRU
    /\ now = 1
    /\ swept = FALSE
    /\ accessed = <<>>

NextTTL ==
    \/ Tick
    \/ evictKeysWithExpiredTTL
    \/ \E t \in Threads :
          \/ Keyspace(t)
          \/ GetValue_read(t)
          \/ adjustMemoryUsage(t)
          \/ handleSADD(t)
          \/ handleSCARD(t)

SpecTTL == InitTTL /\ [][NextTTL]_vars

\* Two connections running SADD and SCARD under allkeys-random, with the
\* rounds of KeyLock and KeyRLock taken apart into the nil test and the
\* lock attempt.
InitRounds ==
    /\ InitKeyspace({LimitAllKeysRandom}, TTLCommands, TTLCommands)
    /\ InitNoExpiry

NextRounds ==
    \E t \in Threads :
        \/ Keyspace(t)
        \/ Eviction(t)
        \/ handleSADD(t)
        \/ handleSCARD(t)
        \/ KeyLock_exists(t)
        \/ KeyLock_TryLock(t)
        \/ KeyRLock_exists(t)
        \/ KeyRLock_TryRLock(t)

SpecRounds == InitRounds /\ [][NextRounds]_vars

\* ------------------------------------------------------------------------
\* GetState, RewriteAOF and the goroutines that call them

StateOnly(c, r) ==
    /\ bg' = [bg EXCEPT ![c] = r]
    /\ UNCHANGED <<ksVars, aofVars, evVars, aclVars, utVars>>

\* The members a value of GetState's map shows now: data[k] = v copied the
\* pointer, so they are those of the object, changed in place or not.
Deref(v) == IF v.present /\ v.isSet THEN ObjMembers(v) ELSE {}

\* TakeSnapshot, called for c: the flag is loaded; if it is set the call
\* returns the error, else it starts the goroutine that runs the snapshot
\* engine's TakeSnapshot and returns nil.
TakeSnapshot(c) ==
    /\ ~fatal
    /\ bg[c].pc = "idle"
    /\ StateOnly(c, IF snapshotInProgress
                    THEN [IdleCopier EXCEPT
                            !.res = "snapshot already in progress"]
                    ELSE [IdleCopier EXCEPT !.pc = "TakeSnapshot",
                                            !.res = "nil",
                                            !.snap = TRUE])
    /\ UNCHANGED <<stateCopyInProgress, stateMutationInProgress,
                   rewriteAOFInProgress, snapshotInProgress>>

\* The snapshot engine in its goroutine waits until the flag is false.
TakeSnapshot_wait(c) ==
    /\ ~fatal
    /\ bg[c].pc = "TakeSnapshot"
    /\ ~snapshotInProgress
    /\ StateOnly(c, [bg[c] EXCEPT !.pc = "StartSnapshot"])
    /\ UNCHANGED <<stateCopyInProgress, stateMutationInProgress,
                   rewriteAOFInProgress, snapshotInProgress>>

\* The engine calls StartSnapshot, and then GetState.
StartSnapshot(c) ==
    /\ ~fatal
    /\ bg[c].pc = "StartSnapshot"
    /\ snapshotInProgress' = TRUE
    /\ StateOnly(c, [bg[c] EXCEPT !.pc = "GetState"])
    /\ UNCHANGED <<stateCopyInProgress, stateMutationInProgress,
                   rewriteAOFInProgress>>

\* The engine has written the state it got and calls FinishSnapshot.
FinishSnapshot(c) ==
    /\ ~fatal
    /\ bg[c].pc = "GetState_returned"
    /\ bg[c].snap
    /\ snapshotInProgress' = FALSE
    /\ StateOnly(c, [IdleCopier EXCEPT !.res = bg[c].res])
    /\ UNCHANGED <<stateCopyInProgress, stateMutationInProgress,
                   rewriteAOFInProgress>>

\* RewriteAOF, called for a connection's BGREWRITEAOF: the flag is loaded;
\* if it is set the call returns the error, else it starts the goroutine
\* that runs RewriteLog and returns nil.
RewriteAOF(c) ==
    /\ ~fatal
    /\ bg[c].pc = "idle"
    /\ StateOnly(c, IF rewriteAOFInProgress
                    THEN [IdleCopier EXCEPT !.res = "aof rewrite in progress"]
                    ELSE [IdleCopier EXCEPT !.pc = "RewriteLog",
                                            !.res = "nil"])
    /\ UNCHANGED <<stateCopyInProgress, stateMutationInProgress,
                   rewriteAOFInProgress, snapshotInProgress>>

\* RewriteLog in its goroutine calls StartRewriteAOF, and then GetState.
StartRewriteAOF(c) ==
    /\ ~fatal
    /\ bg[c].pc = "RewriteLog"
    /\ rewriteAOFInProgress' = TRUE
    /\ StateOnly(c, [bg[c] EXCEPT !.pc = "GetState"])
    /\ UNCHANGED <<stateCopyInProgress, stateMutationInProgress,
                   snapshotInProgress>>

\* RewriteLog has written the state it got and calls FinishRewriteAOF.
FinishRewriteAOF(c) ==
    /\ ~fatal
    /\ bg[c].pc = "GetState_returned"
    /\ ~bg[c].snap
    /\ rewriteAOFInProgress' = FALSE
    /\ StateOnly(c, [IdleCopier EXCEPT !.res = bg[c].res])
    /\ UNCHANGED <<stateCopyInProgress, stateMutationInProgress,
                   snapshotInProgress>>

\* GetState's loop: the round in which both flags are loaded as false.
GetState_Load(c) ==
    /\ ~fatal
    /\ bg[c].pc = "GetState"
    /\ ~stateCopyInProgress /\ ~stateMutationInProgress
    /\ StateOnly(c, [bg[c] EXCEPT !.pc = "GetState_Store"])
    /\ UNCHANGED <<stateCopyInProgress, stateMutationInProgress,
                   rewriteAOFInProgress, snapshotInProgress>>

\* server.StateCopyInProgress.Store(true); break.
GetState_Store(c) ==
    /\ ~fatal
    /\ bg[c].pc = "GetState_Store"
    /\ stateCopyInProgress' = TRUE
    /\ StateOnly(c, [bg[c] EXCEPT !.pc = "GetState_range"])
    /\ UNCHANGED <<stateMutationInProgress, rewriteAOFInProgress,
                   snapshotInProgress>>

\* for k, v := range server.store { data[k] = v }.
GetState_range(c) ==
    /\ ~fatal
    /\ bg[c].pc = "GetState_range"
    /\ StateOnly(c, [bg[c] EXCEPT !.pc = "GetState_clear", !.data = store])
    /\ UNCHANGED <<stateCopyInProgress, stateMutationInProgress,
                   rewriteAOFInProgress, snapshotInProgress>>

\* server.StateCopyInProgress.Store(false); return data.
GetState_clear(c) ==
    /\ ~fatal
    /\ bg[c].pc = "GetState_clear"
    /\ stateCopyInProgress' = FALSE
    /\ StateOnly(c, [bg[c] EXCEPT
                       !.pc = "GetState_returned",
                       !.was = [k \in Keys |-> Deref(bg[c].data[k])]])
    /\ UNCHANGED <<stateMutationInProgress, rewriteAOFInProgress,
                   snapshotInProgress>>

\* The dispatcher before a write command: it waits while the copy flag is
\* set, then sets the mutation flag and runs the handler.
handleCommand_mutation(t) ==
    /\ Running(t, "handleCommand")
    /\ ~stateCopyInProgress
    /\ stateMutationInProgress' = TRUE
    /\ th' = [th EXCEPT ![t].pc = "start"]
    /\ UNCHANGED <<keyLocks, keyCreationLock, store, config, held, ctxDone,
                   fatal, aofVars, evVars, aclVars, utVars,
                   stateCopyInProgress,
                   rewriteAOFInProgress, snapshotInProgress, bg>>

\* The dispatcher after the handler returned: it clears the mutation flag.
handleCommand_mutated(t) ==
    /\ Running(t, "done")
    /\ stateMutationInProgress
    /\ stateMutationInProgress' = FALSE
    /\ UNCHANGED <<ksVars, aofVars, evVars, aclVars, utVars,
                   stateCopyInProgress,
                   rewriteAOFInProgress, snapshotInProgress, bg>>

\* One connection running SADD through the dispatcher, the snapshot
\* goroutine, and two connections sending BGREWRITEAOF.
InitState ==
    /\ \E p \in [Keys -> Presets] :
          /\ keyLocks = [k \in Keys |-> PresetLock(p[k])]
          /\ store = [k \in Keys |-> PresetValue(p[k], k)]
    /\ keyCreationLock = NoThread
    /\ config = NoLimit
    /\ \E c \in Cmd("sadd", Keys, {<<>>}, {{"y"}}) :
          th = [t \in Threads |->
                  IF t = "t1" THEN [Started(c) EXCEPT !.pc = "handleCommand"]
                  ELSE IdleThread]
    /\ held = [t \in Threads |-> [k \in Keys |-> [w |-> 0, r |-> 0]]]
    /\ ctxDone = [t \in Threads |-> FALSE]
    /\ fatal = FALSE
    /\ InitAppendStore({"no"})
    /\ InitNoACL
    /\ InitNoState
    /\ InitNoExpiry

NextState ==
    \/ \E c \in {"snapshot"} :
          \/ TakeSnapshot(c)
          \/ TakeSnapshot_wait(c)
          \/ StartSnapshot(c)
          \/ FinishSnapshot(c)
    \/ \E c \in Conns :
          \/ RewriteAOF(c)
          \/ StartRewriteAOF(c)
          \/ FinishRewriteAOF(c)
    \/ \E c \in Copiers :
          \/ GetState_Load(c)
          \/ GetState_Store(c)
          \/ GetState_range(c)
          \/ GetState_clear(c)
    \/ \E t \in Threads :
          \/ handleCommand_mutation(t)
          \/ handleCommand_mutated(t)
          \/ handleSADD(t)
          \/ KeyLock(t)
          \/ CreateKeyAndLock(t)
          \/ SetValue(t)
          \/ GetValue(t)
          \/ RunDefers(t)
          \/ Cancel(t)

SpecState == InitState /\ [][NextState]_vars

\* The automatic snapshot and two connections sending BGSAVE: every one of
\* them calls TakeSnapshot, no command is dispatched meanwhile.
InitSnapshot == InitState

NextSnapshot ==
    \E c \in Copiers :
        \/ TakeSnapshot(c)
        \/ TakeSnapshot_wait(c)
        \/ StartSnapshot(c)
        \/ GetState_Load(c)
        \/ GetState_Store(c)
        \/ GetState_range(c)
        \/ GetState_clear(c)
        \/ FinishSnapshot(c)

SpecSnapshot == InitSnapshot /\ [][NextSnapshot]_vars

\* Two connections that register, send AUTH with a right or a wrong
\* password and have commands authorized, under every ACL that NewACL
\* builds with and without RequirePass.
InitACL ==
    /\ requirePass \in BOOLEAN
    /\ aclUsers \in NewACL(requirePass)
    /\ aclConnections = [c \in Conns |-> NoConnection]
    /\ authorized = NoAuthorization
    /\ authed = {}
    /\ auth = NoAuth
    /\ aclNames = <<"default", "alice">>
    /\ aclCall = NoCall
    /\ InitNoState
    /\ keyLocks = [k \in Keys |-> NoLock]
    /\ store = [k \in Keys |-> NoValue]
    /\ keyCreationLock = NoThread
    /\ config = NoLimit
    /\ th = [t \in Threads |-> IdleThread]
    /\ held = [t \in Threads |-> [k \in Keys |-> [w |-> 0, r |-> 0]]]
    /\ ctxDone = [t \in Threads |-> FALSE]
    /\ fatal = FALSE
    /\ InitNoExpiry
    /\ InitAppendStore({"no"})

NextACL ==
    \E c \in Conns :
        \/ RegisterConnection(c)
        \/ \E name \in Usernames, password \in Passwords :
              AuthenticateConnection(c, name, password)
        \/ \E cmd \in AclCommands : AuthorizeConnection(c, cmd)

SpecACL == InitACL /\ [][NextACL]_vars

\* Two connections that register and send AUTH, also for a username no
\* user has, and get its error back, under every ACL that NewACL builds.
InitAuth == InitACL

NextAuth ==
    \E c \in Conns :
        \/ RegisterConnection(c)
        \/ \E name \in UserArgs, password \in Passwords :
              AuthenticateConnection_call(c, name, password)

SpecAuth == InitAuth /\ [][NextAuth]_vars

\* The ACL that NewACL builds, with a default user it created or one of
\* the file, and SetUser and DeleteUser calls in any order.
InitUsers ==
    /\ requirePass \in BOOLEAN
    /\ aclUsers \in NewACL(requirePass)
    /\ aclNames \in {<<"default">>, <<"default", "alice">>,
                      <<"alice", "default">>}
    /\ aclCall = NoCall
    /\ InitNoState
    /\ aclConnections = [c \in Conns |-> NoConnection]
    /\ authorized = NoAuthorization
    /\ authed = {}
    /\ auth = NoAuth
    /\ keyLocks = [k \in Keys |-> NoLock]
    /\ store = [k \in Keys |-> NoValue]
    /\ keyCreationLock = NoThread
    /\ config = NoLimit
    /\ th = [t \in Threads |-> IdleThread]
    /\ held = [t \in Threads |-> [k \in Keys |-> [w |-> 0, r |-> 0]]]
    /\ ctxDone = [t \in Threads |-> FALSE]
    /\ fatal = FALSE
    /\ InitNoExpiry
    /\ InitAppendStore({"no"})

NextUsers ==
    \/ \E name \in Usernames : SetUser(name)
    \/ \E n \in 1..MaxDeleted : \E usernames \in [1..n -> UserArgs] :
          DeleteUser(usernames)

SpecUsers == InitUsers /\ [][NextUsers]_vars

\* ------------------------------------------------------------------------
\* handleConnection (echovault.go): the reply of a command on its way to
\* the connection

\* A server with no key, no command running, no log and no ACL.
InitIdle ==
    /\ keyLocks = [k \in Keys |-> NoLock]
    /\ store = [k \in Keys |-> NoValue]
    /\ keyCreationLock = NoThread
    /\ config = NoLimit
    /\ th = [t \in Threads |-> IdleThread]
    /\ held = [t \in Threads |-> [k \in Keys |-> [w |-> 0, r |-> 0]]]
    /\ ctxDone = [t \in Threads |-> FALSE]
    /\ fatal = FALSE
    /\ InitNoExpiry
    /\ InitAppendStore({"no"})
    /\ InitNoACL
    /\ InitNoCopy

chunkSize == 1024

\* The longest reply a command returns here.
MaxReply == 3073

\* A reply of n bytes; each byte stands for its place in the reply, so
\* that a byte written twice or left out shows in what was written.
ReplyOf(n) == [i \in 1..n |-> i]

\* The test at the head of the chunk loop read with <= for <.
LastChunkOffByOne(len, startIndex) == len - 1 - startIndex <= chunkSize

\* len(res)-1-startIndex < chunkSize: what is left goes out in one write.
LastChunk(len, startIndex) == len - 1 - startIndex < chunkSize

\* w.Write(b): how many bytes of b the connection took; fewer than len(b)
\* come with an error.
Written(b) == {0, Len(b)} \cup (IF Len(b) > 1 THEN {Len(b) - 1} ELSE {})

ReplyOnly(r) ==
    /\ reply' = r
    /\ UNCHANGED <<ksVars, aofVars, evVars, aclVars, stVars, util>>

\* After handleCommand returned res without error: nothing is written for
\* an empty reply, one write sends a reply of at most chunkSize bytes, a
\* longer one enters the chunk loop with startIndex 0.
handleConnection_reply ==
    /\ reply.pc = "reply"
    /\ IF Len(reply.res) = 0
       THEN ReplyOnly([reply EXCEPT !.pc = "done"])
       ELSE IF Len(reply.res) <= chunkSize
       THEN \E n \in Written(reply.res) :
               ReplyOnly([reply EXCEPT
                            !.pc = "done",
                            !.chunks = <<SubSeq(reply.res, 1, n)>>,
                            !.full = (n = Len(reply.res))])
       ELSE ReplyOnly([reply EXCEPT !.pc = "chunks", !.startIndex = 0])

\* One turn of the chunk loop: the rest of the reply when fewer than
\* chunkSize bytes lie behind the next one, else the next chunkSize bytes;
\* a short write ends the loop.
handleConnection_chunk ==
    /\ reply.pc = "chunks"
    /\ LET res == reply.res
           startIndex == reply.startIndex
       IN  IF LastChunk(Len(res), startIndex)
           THEN LET b == SubSeq(res, startIndex + 1, Len(res)) IN
                \E n \in Written(b) :
                   ReplyOnly([reply EXCEPT
                                !.pc = "done",
                                !.chunks = Append(@, SubSeq(b, 1, n)),
                                !.full = (@ /\ n = Len(b))])
           ELSE LET b == SubSeq(res, startIndex + 1, startIndex + chunkSize) IN
                \E n \in Written(b) :
                   ReplyOnly([reply EXCEPT
                                !.pc = IF n < chunkSize THEN "done"
                                       ELSE "chunks",
                                !.chunks = Append(@, SubSeq(b, 1, n)),
                                !.full = (@ /\ n = Len(b)),
                                !.startIndex = IF n < chunkSize THEN @
                                               ELSE @ + chunkSize])

\* One connection whose command returned a reply of up to MaxReply bytes.
InitReply ==
    /\ InitIdle
    /\ util = NoUtil
    /\ \E n \in 0..MaxReply :
          reply = [NoReply EXCEPT !.pc = "reply", !.res = ReplyOf(n)]

NextReply ==
    \/ handleConnection_reply
    \/ handleConnection_chunk

SpecReply == InitReply /\ [][NextReply]_vars

\* ------------------------------------------------------------------------
\* ParseMemory (internal/utils.go).  A 64-bit integer is its four 16-bit
\* limbs, the lowest first; a number that is not cut to a width has as
\* many limbs as it needs.

\* One more than the largest limb.
LimbBase == 2^16

\* l * m + c, one limb longer than l.
RECURSIVE MulAdd(_, _, _)
MulAdd(l, m, c) ==
    IF l = <<>> THEN <<c>>
    ELSE LET v == Head(l) * m + c
         IN  <<v % LimbBase>> \o MulAdd(Tail(l), m, v \div LimbBase)

\* A number without its leading zero limbs.
RECURSIVE Trim(_)
Trim(l) ==
    IF l # <<>> /\ l[Len(l)] = 0 THEN Trim(SubSeq(l, 1, Len(l) - 1)) ELSE l

\* The low 64 bits of a number.
Wrap64(l) == [i \in 1..4 |-> IF i <= Len(l) THEN l[i] ELSE 0]

\* The number a string of decimal digits writes.
RECURSIVE DecimalLimbs(_, _)
DecimalLimbs(digits, acc) ==
    IF digits = <<>> THEN acc
    ELSE DecimalLimbs(Tail(digits), Trim(MulAdd(acc, 10, DigitVal(Head(digits)))))

\* l * 1024^k.
RECURSIVE Times1024(_, _)
Times1024(l, k) ==
    IF k = 0 THEN Trim(l) ELSE Times1024(Trim(MulAdd(l, 1024, 0)), k - 1)

\* The 64 bits of -l in two's complement.
Negated(l) ==
    Wrap64(MulAdd([i \in 1..4 |-> LimbBase - 1 - Wrap64(l)[i]], 1, 1))

\* l < 2^63, and l <= 2^63.
BelowTwo63(l) == Len(l) < 4 \/ (Len(l) = 4 /\ l[4] < LimbBase \div 2)

AtMostTwo63(l) == BelowTwo63(l) \/ l = <<0, 0, 0, LimbBase \div 2>>

\* strconv.ParseInt(s, 10, 64): an optional sign and decimal digits; a
\* value outside the int64 range is an error.
ParseInt(str) ==
    LET signed == str # <<>> /\ Head(str) \in {"+", "-"}
        neg == signed /\ Head(str) = "-"
        digits == IF signed THEN Tail(str) ELSE str
        n == DecimalLimbs(digits, <<>>)
    IN  IF digits = <<>> \/ \E i \in 1..Len(digits) : ~IsDigit(digits[i])
        THEN [err |-> TRUE, val |-> Wrap64(<<>>)]
        ELSE IF neg /\ AtMostTwo63(n) THEN [err |-> FALSE, val |-> Negated(n)]
        ELSE IF ~neg /\ BelowTwo63(n) THEN [err |-> FALSE, val |-> Wrap64(n)]
        ELSE [err |-> TRUE, val |-> Wrap64(<<>>)]

\* strings.ToLower on the letters that are used here.
ToLower(c) ==
    CASE c = "K" -> "k" [] c = "M" -> "m" [] c = "G" -> "g" [] c = "T" -> "t"
      [] c = "P" -> "p" [] c = "B" -> "b" [] c = "X" -> "x" [] OTHER -> c

\* The power of 1024 that ParseMemory's switch multiplies by, 0 for a
\* unit it does not know.
UnitPower(memUnit) ==
    CASE memUnit = <<"k", "b">> -> 1 [] memUnit = <<"m", "b">> -> 2
      [] memUnit = <<"g", "b">> -> 3 [] memUnit = <<"t", "b">> -> 4
      [] memUnit = <<"p", "b">> -> 5 [] OTHER -> 0

\* bytesInt *= 1024^k in int64: the product is cut to 64 bits.
TimesUnit(bytesInt, k) == Wrap64(Times1024(bytesInt, k))

\* ParseMemory(memory): memory[0:len(memory)-2] panics on a string of
\* fewer than two bytes; uint64(bytesInt) keeps the 64 bits.
ParseMemory(memory) ==
    IF Len(memory) < 2
    THEN [kind |-> "panic", err |-> FALSE, val |-> <<>>]
    ELSE LET memString == SubSeq(memory, 1, Len(memory) - 2)
             bytesInt == ParseInt(memString)
             memUnit == [i \in 1..2 |-> ToLower(memory[Len(memory) - 2 + i])]
         IN  IF bytesInt.err \/ UnitPower(memUnit) = 0
             THEN [kind |-> "uint64", err |-> TRUE, val |-> Wrap64(<<>>)]
             ELSE [kind |-> "uint64", err |-> FALSE,
                   val |-> TimesUnit(bytesInt.val, UnitPower(memUnit))]

\* The most zeros after the leading digit of a number given to ParseMemory.
MaxZeros == 19

\* The numbers 0, 1, 9, 10, 90, 100, ... as decimal strings, and -1.
MemoryNumbers ==
    {[i \in 1..(z + 1) |-> IF i = 1 THEN d ELSE "0"] :
        d \in {"0", "1", "9"}, z \in 0..MaxZeros}
    \cup {<<"-", "1">>}

\* The units: the five in either case of each letter, three that are
\* none, and a missing one.
MemoryUnits ==
    {<<a, b>> : a \in {"k", "K", "m", "M", "g", "G", "t", "T", "p", "P", "x"},
                b \in {"b", "B"}}
    \cup {<<"b">>, <<>>}

UtilOnly(r) ==
    /\ util' = r
    /\ UNCHANGED <<ksVars, aofVars, evVars, aclVars, stVars, reply>>

\* The configuration is read: ParseMemory is called on max_memory.
ParseMemory_call ==
    /\ util.fn = "ParseMemory"
    /\ ~util.done
    /\ LET r == ParseMemory(util.arg)
       IN  UtilOnly([util EXCEPT !.done = TRUE, !.kind = r.kind,
                                 !.err = r.err, !.val = r.val])

\* A handler calls AdaptType on a token of its command.
AdaptType_call ==
    /\ util.fn = "AdaptType"
    /\ ~util.done
    /\ LET r == AdaptType(util.arg)
       IN  UtilOnly([util EXCEPT !.done = TRUE, !.kind = r.kind,
                                 !.val = r.text])

\* The longest token of the alphabet below that is given to AdaptType.
MaxToken == 4

TokenChars == {"0", "1", "9", ".", "e", "-", "x"}

\* Every token of up to MaxToken characters, Inf, and the whole numbers
\* next to the ends of the int64 range.
Tokens ==
    UNION {[1..n -> TokenChars] : n \in 0..MaxToken}
    \cup {<<"I", "n", "f">>, MaxInt64, MinInt64,
          SubSeq(MaxInt64, 1, 18) \o <<"8">>,
          SubSeq(MinInt64, 1, 19) \o <<"9">>}

\* One call of ParseMemory or of AdaptType on one argument.
InitUtils ==
    /\ InitIdle
    /\ reply = NoReply
    /\ \E fn \in {"ParseMemory", "AdaptType"} :
          \E arg \in (IF fn = "ParseMemory"
                       THEN {n \o u : n \in MemoryNumbers, u \in MemoryUnits}
                       ELSE Tokens) :
             util = [NoUtil EXCEPT !.fn = fn, !.arg = arg]

NextUtils ==
    \/ ParseMemory_call
    \/ AdaptType_call

SpecUtils == InitUtils /\ [][NextUtils]_vars

\* ------------------------------------------------------------------------
\* The log specification: one connection sends up to MaxCmds hash commands
\* to a standalone server with an append-only log, the process restarts and
\* restores the log into an empty store.  No set handler runs.
InitAOF ==
    /\ InitAppendStore(Strategies)
    /\ keyLocks = [k \in Keys |-> NoLock]
    /\ store = [k \in Keys |-> NoValue]
    /\ keyCreationLock = NoThread
    /\ config = NoLimit
    /\ th = [t \in Threads |-> IdleThread]
    /\ held = [t \in Threads |-> [k \in Keys |-> [w |-> 0, r |-> 0]]]
    /\ ctxDone = [t \in Threads |-> FALSE]
    /\ fatal = FALSE
    /\ InitNoExpiry
    /\ InitNoACL
    /\ InitNoState

NextAOF ==
    \/ handleCommand
    \/ Write_lock
    \/ Write_append
    \/ Sync_lock
    \/ Sync_sync
    \/ Syncer_After
    \/ Restart
    \/ Restore_lock
    \/ Restore_read
    \/ Restore_dispatch
    \/ Restore_return

SpecAOF == InitAOF /\ [][NextAOF]_vars

\* ------------------------------------------------------------------------
\* Properties of the keyspace

\* The threads that hold the write lock taken under the name k: a handler
\* between its acquisition and its unlock, and an evicting thread from its
\* KeyLock on the victim to the end of the victim's deletion.
WriteHolders(k) ==
    {t \in Threads : \/ held[t][k].w > 0
                     \/ th[t].sub.evicting /\ th[t].sub.victim = k}

ReadHolders(k) == {t \in Threads : held[t][k].r > 0}

\* C1: at no moment do two threads hold the write lock of one key name, and
\* no thread holds a key's write lock while another holds its read lock.
C1_MutualExclusion ==
    \A k \in Keys :
        /\ Cardinality(WriteHolders(k)) <= 1
        /\ \A w \in WriteHolders(k) : ReadHolders(k) \ {w} = {}

\* The code lets C1 fail: a created key is write-locked by its creator while
\* the thread that evicts the same name is still deleting it.
C1_EvictorAndCreator ==
    \E k \in Keys : \E t, u \in Threads :
        /\ t # u
        /\ th[t].sub.evicting /\ th[t].sub.victim = k
        /\ held[u][k].w > 0

\* Thread t polls for a lock that cannot be taken now, its context live.
Blocked(t) ==
    /\ ~ctxDone[t]
    /\ \/ /\ th[t].pc \in {"KeyLock", "ckl_KeyLock"}
          /\ LockOutcome(t, th[t].sub.key) = "busy"
       \/ /\ th[t].pc = "amu_KeyLock"
          /\ LockOutcome(t, th[t].sub.victim) = "busy"
       \/ /\ th[t].pc = "KeyRLock"
          /\ RLockOutcome(t, th[t].sub.key) = "busy"

WaitKey(t) == IF th[t].pc = "amu_KeyLock" THEN th[t].sub.victim ELSE th[t].sub.key

\* Thread t waits for a key lock that thread u holds.
WaitsFor(t, u) ==
    /\ Blocked(t)
    /\ held[u][WaitKey(t)].w + held[u][WaitKey(t)].r > 0

\* C2: there is no state in which handlers whose contexts are not cancelled
\* each wait for a key lock held by another of them.
C2_NoCircularWait ==
    ~ \E t, u \in Threads : t # u /\ WaitsFor(t, u) /\ WaitsFor(u, t)

\* The code lets C2 fail with two SMOVE commands over the same two keys in
\* opposite order.
C2_OpposedMoves ==
    /\ \A t \in Threads : th[t].cmd.op = "smove" /\ Blocked(t)
    /\ th["t1"].cmd.dst = th["t2"].cmd.srcs[1]
    /\ th["t2"].cmd.dst = th["t1"].cmd.srcs[1]

\* C3: a set handler that has returned, on success or on error, holds none
\* of the key locks it acquired.
C3_ReturnedHoldsNothing ==
    \A t \in Threads :
        th[t].pc = "done" => \A k \in Keys : held[t][k].w = 0 /\ held[t][k].r = 0

\* The code lets C3 fail where SetValue fails after the destination of a
\* ...STORE command was locked.
C3_StoreFailedStillLocked ==
    \E t \in Threads :
        /\ th[t].pc = "done"
        /\ th[t].cmd.op \in {"sinterstore", "sdiffstore"}
        /\ th[t].res = "err"
        /\ held[t][th[t].cmd.dst].w > 0

\* C4: a handler reads a key's value only while it holds the key's read or
\* write lock, and writes it only while it holds the key's write lock.
C4_AccessUnderLock ==
    \A t \in Threads :
        LET k == th[t].sub.key IN
        /\ th[t].pc = "GetValue" => held[t][k].r > 0 \/ held[t][k].w > 0
        /\ th[t].pc = "SetValue" => held[t][k].w > 0
        /\ th[t].pc = "sadd_got" => held[t][th[t].cmd.dst].w > 0

\* The code lets C4 fail where SDIFF reads a key its locking loop skipped.
C4_ReadOfSkippedKey ==
    \E t \in Threads :
        /\ th[t].pc = "GetValue"
        /\ th[t].cmd.op \in {"sdiff", "sdiffstore"}
        /\ th[t].sub.key \notin th[t].locks
        /\ held[t][th[t].sub.key].r = 0 /\ held[t][th[t].sub.key].w = 0

\* C5: in every reachable state every key for which KeyExists is true has
\* an entry in the lock map and a value in the store.
C5_ExistingKeyHasValue ==
    \A k \in Keys : KeyExists(k) => keyLocks[k].exists /\ store[k].present

\* The code lets C5 fail for good: every handler has returned and a key
\* exists without a value.
C5_LastingKeyWithoutValue ==
    /\ \A t \in Threads : th[t].pc = "done"
    /\ \E k \in Keys : KeyExists(k) /\ ~store[k].present

\* C6: a handler never waits for the write lock of a key whose read lock it
\* still holds.
C6_NoWaitOnOwnReadLock ==
    \A t \in Threads :
        th[t].pc \in {"KeyLock", "ckl_KeyLock"} => held[t][th[t].sub.key].r = 0

\* The code lets C6 fail: a ...STORE command whose destination is one of
\* its sources polls for the write lock that only its own read lock denies.
C6_StoreOntoSource ==
    \E t \in Threads :
        /\ th[t].pc = "KeyLock"
        /\ th[t].cmd.op \in {"sinterstore", "sunionstore", "sdiffstore"}
        /\ held[t][th[t].cmd.dst].r > 0
        /\ keyLocks[th[t].cmd.dst].r = held[t][th[t].cmd.dst].r
        /\ ~keyLocks[th[t].cmd.dst].w

\* ------------------------------------------------------------------------
\* Properties of the log

RestoreReturned == aofpc["conn"] = "restored"

\* C7: replaying the log that a sequence of commands produced into an empty
\* store yields the store the sequence produced directly.
C7_ReplayEqualsDirect ==
    RestoreReturned /\ ~cut => restored = hashes

\* The code lets C7 fail on a sequence that deletes a hash field, every
\* token of which is non-empty: the replayed store still has the field.
C7_DeletedFieldComesBack ==
    /\ RestoreReturned /\ ~cut
    /\ \A i \in 1..Len(issued) : \A j \in 1..Len(issued[i]) : issued[i][j] # <<>>
    /\ \E i \in 1..Len(issued) : issued[i][1] = hdel
    /\ \E k \in HashKeys : \E e \in restored[k].fields : e \notin hashes[k].fields

\* C8: with strategy always no call of Write blocks forever: Write never
\* waits for the store mutex while it is the one holding it.
C8_WriteNeverWaitsOnItself ==
    aofpc["conn"] = "Sync_lock" => mut # "conn"

\* The code lets C8 fail: under strategy always the record is appended, not
\* yet synced, and Write waits in Sync for the mutex Write itself holds.
C8_WriteStuckInSync ==
    /\ strategy = "always"
    /\ aofpc["conn"] = "Sync_lock"
    /\ mut = "conn"
    /\ rw # <<>>
    /\ synced < Len(rw)

\* C9: while Restore replays the log every command is dispatched with the
\* replay flag set and nothing is appended: the log stays as it was when
\* Restore began.
C9_RestoreReplaysWithoutAppending ==
    /\ \A i \in 1..Len(calls) : calls[i].replay
    /\ aofpc["conn"] \in {"Restore_lock", "Restore_read", "Restore_dispatch", "restored"}
          => rw = rwBefore

\* Restore has returned after dispatching a command that a call without
\* the replay flag would have appended, and the log is as it was.
C9_ReplayedWriteCommand ==
    /\ RestoreReturned
    /\ \E i \in 1..Len(calls) : calls[i].replay /\ Appends(calls[i].command, FALSE)
    /\ rw = rwBefore
    /\ rw # <<>>

\* C10: on a log whose final record is cut short Restore returns having
\* dispatched every earlier complete record once and in order, and nothing
\* else.
C10_CutLogDispatchesCompleteRecords ==
    RestoreReturned /\ cut =>
        [i \in 1..Len(calls) |-> calls[i].command] = SubSeq(written, 1, Len(written) - 1)

\* The code lets C10 fail: a complete record before the cut one is never
\* handed to handleCommand.
C10_CompleteRecordNotDispatched ==
    /\ RestoreReturned /\ cut
    /\ \E i \in 1..(Len(written) - 1) :
          \A j \in 1..Len(calls) : calls[j].command # written[i]

\* ------------------------------------------------------------------------
\* C11: With a memory limit, the noeviction policy and the heap at or above
\* the limit, CreateKeyAndLock returns an error and adds no lock entry, and
\* SetValue returns an error and leaves the store as it was.
C11_NoEvictionRefusesOverLimit ==
    [][\A t \in Threads :
          (/\ config.maxMemory
           /\ config.policy = "noeviction"
           /\ th[t].pc \in {"CreateKeyAndLock", "SetValue"}
           /\ th'[t] # th[t]
           /\ th'[t].sub.over)
          => (/\ th'[t].pc = th[t].sub.ret
              /\ th'[t].sub.err
              /\ keyLocks' = keyLocks
              /\ store' = store)]_vars

\* Both refusals at once: one handler's CreateKeyAndLock was refused over
\* the limit and its key has no lock entry, another handler created its key
\* and had its SetValue refused, and that key has no value.
C11_CreateAndSetRefused ==
    \E t, u \in Threads :
        /\ config.maxMemory
        /\ config.policy = "noeviction"
        /\ th[t].pc \in {"sadd_created", "skd_created"}
        /\ th[t].sub.over
        /\ th[t].sub.err
        /\ ~KeyExists(th[t].sub.key)
        /\ th[u].pc \in {"sadd_set", "skd_set"}
        /\ th[u].sub.over
        /\ th[u].sub.err
        /\ KeyExists(th[u].sub.key)
        /\ ~store[th[u].sub.key].present

\* ------------------------------------------------------------------------
\* The keys with a time to live: an entry in keyExpiry that is a time.
TTLKeys == {k \in Keys : keyExpiry[k].has /\ keyExpiry[k].at # 0}

\* C12: Under an LFU or LRU policy with a memory limit, a SetValue or
\* GetValue issued while the heap is at or over the limit always returns.
\* A call that returns never waits for a mutex that only its own return
\* releases: no thread stands at the Lock of adjustMemoryUsage while the
\* Unlock deferred by its own updateKeyInCache is outstanding.
C12_CallNeverWaitsOnItself ==
    \A t \in Threads :
        ~(/\ config.policy \in LFUPolicies \cup LRUPolicies
          /\ th[t].pc = "amu_Lock"
          /\ CacheMutex = t)

\* A GetValue under allkeys-lru that read the heap over the limit: it holds
\* lruCache.mutex and waits for it, with a victim ready in the cache.
C12_GetValueStuck ==
    \E t \in Threads :
        /\ config.policy = "allkeys-lru"
        /\ th[t].pc = "amu_Lock"
        /\ th[t].sub.isGet
        /\ th[t].sub.over
        /\ lruCache.mutex = t
        /\ lruCache.cache # <<>>

\* The key of the keyspace whose last access is the earliest.
AccessedKeys == SelectSeq(accessed, KeyExists)

C15_VictimHasTTL ==
    [][\A t \in Threads :
          (/\ config.policy = "volatile-random"
           /\ th[t].pc = "amu_KeyLock"
           /\ th'[t].pc = "amu_delete_keyLocks")
          => th[t].sub.victim \in TTLKeys]_vars

\* An eviction under volatile-random in progress on a key whose entry in
\* keyExpiry is the zero time, after a PERSIST or a restore without expiry
\* of that key.
C15_KeyWithoutTTLEvicted ==
    \E t, u \in Threads :
        /\ config.policy = "volatile-random"
        /\ th[t].sub.evicting
        /\ th[t].pc = "amu_delete_keyLocks"
        /\ keyExpiry[th[t].sub.victim] = ExpiresAt(0)
        /\ th[u].cmd.op \in {"persist", "setkeydata"}
        /\ th[u].cmd.dst = th[t].sub.victim
        /\ th[u].pc = "done"

\* The TTL keys that expire soonest.
SoonestKeys ==
    {k \in TTLKeys : \A j \in TTLKeys : keyExpiry[k].at <= keyExpiry[j].at}

\* C16: Under volatile-ttl, with the heap at or over the limit and at least
\* one TTL key, the memory adjustment evicts the TTL key that expires
\* soonest: adjustMemoryUsage, having read the heap over the limit, goes on
\* to that key and does not return.
C16_SoonestKeyEvicted ==
    [][\A t \in Threads :
          (/\ config.policy = "volatile-ttl"
           /\ th[t].pc = "adjustMemoryUsage"
           /\ th'[t] # th[t]
           /\ th'[t].sub.over
           /\ TTLKeys # {})
          => (/\ th'[t].sub.victim \in SoonestKeys
              /\ th'[t].pc \notin {th[t].sub.ret, "GetValue_read"})]_vars

\* A SADD under volatile-ttl whose SetValue returned after its adjustment
\* read the heap over the limit, with every TTL key still in the store.
C16_NothingEvicted ==
    \E t \in Threads :
        /\ config.policy = "volatile-ttl"
        /\ th[t].pc = "sadd_set"
        /\ th[t].sub.over
        /\ ~th[t].sub.err
        /\ TTLKeys # {}
        /\ \A k \in TTLKeys : store[k].present /\ KeyExists(k)

\* C14: Eviction removes the victim's value, lock entry and TTL entry as
\* one atomic step with respect to other threads: between the removal of
\* the lock entry and the removal of the value, no CreateKeyAndLock or
\* SetValue of another thread for the same key name takes effect.
C14_EvictionIsAtomic ==
    [][\A t, u \in Threads :
          (/\ t # u
           /\ th[t].pc = "amu_delete_store"
           /\ th[u].pc \in {"CreateKeyAndLock", "SetValue"}
           /\ th[u].sub.key = th[t].sub.victim)
          => (/\ keyLocks'[th[t].sub.victim] = keyLocks[th[t].sub.victim]
              /\ store'[th[t].sub.victim] = store[th[t].sub.victim])]_vars

\* A SADD created the victim's key anew and set its value after the evictor
\* had deleted the lock entry; the evictor's delete(server.store, key) then
\* removed that value, while the creator still holds the new lock.
C14_CreatorsValueDeleted ==
    \E t, u \in Threads :
        /\ t # u
        /\ th[t].pc = "amu_delete_keyExpiry"
        /\ th[u].pc = "sadd_set"
        /\ th[u].sub.key = th[t].sub.victim
        /\ ~th[u].sub.err
        /\ held[u][th[u].sub.key].w > 0
        /\ KeyExists(th[u].sub.key)
        /\ ~store[th[u].sub.key].present

\* A TTL key whose time passed more than one eviction interval ago.
LongExpired(k) == Expired(k) /\ keyExpiry[k].at + 1 < now

\* C17: Once the expiry of a key is in the past, at the latest one
\* eviction interval after it passed, every access behaves as if the key
\* were absent, under every policy: GetValue returns no value for it and a
\* handler's KeyExists test sends the handler the way of a missing key.
C17_ExpiredKeyReadsAsAbsent ==
    [][\A t \in Threads :
          /\ (/\ th[t].pc \in {"GetValue", "GetValue_read"}
              /\ th'[t].pc = th[t].sub.ret
              /\ LongExpired(th[t].sub.key))
             => ~th'[t].sub.val.present
          /\ (/\ th[t].pc = "start"
              /\ th[t].cmd.op = "scard"
              /\ th'[t] # th[t]
              /\ LongExpired(th[t].cmd.dst))
             => th'[t].pc = "return"]_vars

\* Under noeviction a SCARD has read the value of a key whose expiry
\* passed more than an interval ago.
C17_ExpiredKeyRead ==
    \E t \in Threads :
        /\ config.policy = "noeviction"
        /\ th[t].pc = "scard_got"
        /\ LongExpired(th[t].sub.key)
        /\ th[t].sub.val.present
        /\ now = MaxExpiry + 1

\* The commands AuthorizeConnection has allowed other than AUTH.
Allowed ==
    /\ authorized.Conn \in Conns
    /\ authorized.Cmd.Command # "auth"
    /\ authorized.Err = "nil"

\* C18: AuthorizeConnection denies a command unless every one of its
\* categories is allowed by the included categories of the connection's
\* user (an entry equal to the category or "*") and none of them is in the
\* excluded categories: whenever a registered connection's command other
\* than AUTH is authorized, all its categories are included and none is
\* excluded.
C18_EveryCategoryAllowed ==
    \A c \in Conns, cmd \in AclCommands :
        /\ aclConnections[c].Registered
        /\ cmd.Command # "auth"
        /\ Authorize(c, cmd) = "nil"
        => LET user == aclUsers[aclConnections[c].User]
           IN  /\ \A cat \in cmd.Categories :
                     ContainsAny({cat}, user.IncludedCategories)
               /\ ~ContainsAny(cmd.Categories, user.ExcludedCategories)

\* AuthorizeConnection has allowed SDIFF, of the categories set, read and
\* slow, to a user whose included categories are read alone.
C18_OneCategoryOfThreeAllowed ==
    /\ Allowed
    /\ authorized.Cmd.Command = "sdiff"
    /\ aclUsers[authorized.User].IncludedCategories = {"read"}

\* C19: AuthorizeConnection denies a command unless every key it names is
\* in the included keys of the connection's user, and in the included read
\* keys if the command has the read category, and in the included write
\* keys if it has the write category: whenever a registered connection's
\* command other than AUTH is authorized, each of its keys is in each of
\* the lists that apply.
C19_EveryKeyAllowed ==
    \A c \in Conns, cmd \in AclCommands :
        /\ aclConnections[c].Registered
        /\ cmd.Command # "auth"
        /\ Authorize(c, cmd) = "nil"
        => LET user == aclUsers[aclConnections[c].User]
           IN  \A k \in cmd.Keys :
                 /\ ContainsAny({k}, user.IncludedKeys)
                 /\ "read" \in cmd.Categories
                       => ContainsAny({k}, user.IncludedReadKeys)
                 /\ "write" \in cmd.Categories
                       => ContainsAny({k}, user.IncludedWriteKeys)

\* AuthorizeConnection has allowed SDIFF a b to a user whose included keys
\* and included read keys are a alone.
C19_OneKeyOfTwoAllowed ==
    /\ Allowed
    /\ authorized.Cmd.Keys = {"a", "b"}
    /\ aclUsers[authorized.User].IncludedKeys = {"a"}
    /\ aclUsers[authorized.User].IncludedReadKeys = {"a"}

C21_AuthAlwaysAccepted ==
    \A c \in Conns, cmd \in AclCommands :
        aclConnections[c].Registered /\ cmd.Command = "auth"
        => Authorize(c, cmd) = "nil"

\* AuthorizeConnection has accepted AUTH, with require_pass, on a
\* connection that is not authenticated and had no successful AUTH, and
\* on which it refuses every other command.
C21_AuthAcceptedUnauthenticated ==
    /\ requirePass
    /\ authorized.Conn \in Conns
    /\ authorized.Cmd.Command = "auth"
    /\ authorized.Err = "nil"
    /\ ~authorized.Authed
    /\ ~aclConnections[authorized.Conn].Authenticated
    /\ \A cmd \in AclCommands :
          cmd.Command # "auth" => Authorize(authorized.Conn, cmd) # "nil"

\* C22: after any sequence of SetUser and DeleteUser calls, DeleteUser
\* calls that name default or a user that does not exist included, the
\* ACL's user list contains a user named default.
C22_DefaultUserAlwaysExists == In("default", aclNames)

\* DeleteUser was called with default and the name of another user of the
\* list, and removed that user from the list.
C22_DeleteNamingDefault ==
    /\ aclCall.op = "DeleteUser"
    /\ In("default", aclCall.names)
    /\ Len(aclNames) < Len(aclCall.before)

\* C23: if the context is cancelled while KeyLock or KeyRLock is waiting
\* for a lock, the call returns an error and its caller does not hold the
\* lock afterwards: every poll made with the context cancelled ends the
\* call with an error, acquires nothing and leaves every mutex as it was,
\* also when the lock has become free by then.
C23_CancelledCallFails ==
    [][\A t \in Threads :
          (/\ ctxDone[t]
           /\ th[t].pc \in {"KeyLock", "KeyRLock", "ckl_KeyLock"}
           /\ th'[t] # th[t])
          => (/\ th'[t].pc = th[t].sub.ret
              /\ th'[t].sub.err
              /\ held'[t] = held[t]
              /\ keyLocks' = keyLocks)]_vars

\* A handler's lock call has returned an error after its context was
\* cancelled, on a key that exists and that nobody holds any more; the
\* handler holds no lock on it.
C23_CancelledWhileWaiting ==
    \E t \in Threads :
        /\ ctxDone[t]
        /\ th[t].sub.err
        /\ th[t].sub.key \in Keys
        /\ th[t].pc \notin {"KeyLock", "KeyRLock", "ckl_KeyLock"}
        /\ KeyExists(th[t].sub.key)
        /\ ~keyLocks[th[t].sub.key].w
        /\ keyLocks[th[t].sub.key].r = 0
        /\ held[t][th[t].sub.key] = [w |-> 0, r |-> 0]

\* C24: KeyLock and KeyRLock on a key that has no lock entry return a
\* not-found error and change nothing, also when the entry is removed by a
\* concurrent eviction between the existence check and the lock attempt:
\* every step of a call whose key has no entry, and whose context is not
\* cancelled, returns an error to the caller with no mutex, no holder and
\* the process itself left as they were.
C24_MissingEntryIsNotFound ==
    [][\A t \in Threads :
          (/\ th[t].pc \in {"KeyLock", "KeyLock_TryLock",
                             "KeyRLock", "KeyRLock_TryRLock"}
           /\ ~KeyExists(th[t].sub.key)
           /\ ~ctxDone[t]
           /\ <<th[t], fatal>> # <<th'[t], fatal'>>)
          => (/\ th'[t].pc = th[t].sub.ret
              /\ th'[t].sub.err
              /\ keyLocks' = keyLocks
              /\ held' = held
              /\ fatal' = fatal)]_vars

\* A lock attempt was made on an entry that an eviction had deleted after
\* the call's nil test.
C24_TryLockOnDeletedEntry ==
    \E t \in Threads :
        /\ fatal
        /\ th[t].pc \in {"KeyLock_TryLock", "KeyRLock_TryRLock"}
        /\ ~KeyExists(th[t].sub.key)

\* C25: concurrent CreateKeyAndLock calls for one absent key create one
\* lock entry, and every call that returns success leaves its caller as
\* the sole holder of the key's write lock with the key existing: at the
\* step by which a call returns without error the key has an entry, the
\* entry is write-locked, the caller is the only thread holding a write
\* lock taken under the key's name, and nobody holds a read lock on it.
C25_CreatorIsSoleHolder ==
    [][\A t \in Threads :
          (/\ th[t].pc \in {"CreateKeyAndLock", "ckl_KeyLock"}
           /\ th'[t].pc = th[t].sub.ret
           /\ ~th'[t].sub.err)
          => LET k == th[t].sub.key
             IN  /\ KeyExists(k)'
                 /\ keyLocks'[k].w
                 /\ WriteHolders(k)' = {t}
                 /\ ReadHolders(k)' = {}]_vars

\* CreateKeyAndLock has returned success for a key whose earlier entry an
\* eviction deleted, while the evicting thread, still holding the lock it
\* took on the key, has the key's value to delete.
C25_CreatedUnderEviction ==
    \E t, u \in Threads :
        /\ t # u
        /\ th[t].pc \in {"sadd_created", "skd_created", "smove_dst_created"}
        /\ ~th[t].sub.err
        /\ held[t][th[t].sub.key].w > 0
        /\ th[u].sub.evicting
        /\ th[u].sub.victim = th[t].sub.key

\* C26: CreateKeyAndLock holds the key-creation lock only while it tests
\* for and inserts the lock entry; it never polls an existing key's lock
\* while holding the creation lock, so that a CreateKeyAndLock on a key
\* locked by someone else cannot block the creation of other keys.
C26_NoPollUnderCreationLock ==
    \A t \in Threads :
        keyCreationLock = t
        => th[t].pc \notin {"KeyLock", "ckl_KeyLock", "KeyLock_TryLock"}

\* A CreateKeyAndLock polls, with the creation lock held, for a key that
\* another handler has locked, and that handler's own CreateKeyAndLock of
\* another key, which has no entry, waits for the creation lock.
C26_CreationBlockedByPoll ==
    \E t, u \in Threads :
        /\ t # u
        /\ th[t].pc = "ckl_KeyLock"
        /\ keyCreationLock = t
        /\ held[u][th[t].sub.key].w > 0
        /\ th[u].pc = "CreateKeyAndLock"
        /\ th[u].sub.key # th[t].sub.key
        /\ ~KeyExists(th[u].sub.key)

\* C27: no thread acquires an eviction-cache mutex while it holds a per-key
\* lock, and no thread polls for a per-key lock while it holds an
\* eviction-cache mutex.
C27_CacheMutexApartFromKeyLocks ==
    [][\A t \in Threads :
          /\ (CacheMutex # t /\ CacheMutex' = t)
                => \A k \in Keys : held[t][k] = [w |-> 0, r |-> 0]
          /\ CacheMutex' = t
                => th'[t].pc \notin {"KeyLock", "KeyRLock", "ckl_KeyLock",
                                      "amu_KeyLock"}]_vars

\* A handler that write-locked its key holds the cache mutex, taken by the
\* updateKeyInCache of its SetValue.
C27_CacheMutexUnderWriteLock ==
    \E t \in Threads :
        /\ config.policy \in LFUPolicies \cup LRUPolicies
        /\ CacheMutex = t
        /\ ~th[t].sub.isGet
        /\ held[t][th[t].sub.key].w > 0

\* The goroutines between GetState's Store(true) and its Store(false).
Copying == {c \in Copiers : bg[c].pc \in {"GetState_range", "GetState_clear"}}

\* C28: GetState's copy of the store never overlaps in time with another
\* GetState copy or with a store mutation: at most one goroutine is between
\* setting and clearing StateCopyInProgress, and nothing is written to the
\* store while StateCopyInProgress is true.
C28_CopyOverlapsNothing ==
    [][/\ Cardinality(Copying) <= 1
       /\ stateCopyInProgress => store' = store]_vars

\* The snapshot and a rewrite are both between setting and clearing the
\* flag.
C28_TwoCopiesAtOnce ==
    \E c \in Conns : {"snapshot", c} \subseteq Copying

\* C29: the state GetState returned is unaffected by every mutation made
\* after it returned, in-place changes to a set that was stored when the
\* copy was taken included: each value of the returned map shows the
\* members it showed when GetState returned.
C29_ReturnedStateIsFrozen ==
    \A c \in Copiers :
        bg[c].pc = "GetState_returned"
        => \A k \in Keys : Deref(bg[c].data[k]) = bg[c].was[k]

\* SADD has added a member to a set that was in the store when GetState
\* copied it, after GetState returned, and the returned map shows it.
C29_ReturnedStateChanged ==
    \E c \in Copiers, k \in Keys :
        /\ bg[c].pc = "GetState_returned"
        /\ th["t1"].pc = "done"
        /\ th["t1"].cmd.dst = k
        /\ bg[c].was[k] = {"x"}
        /\ Deref(bg[c].data[k]) = {"x", "y"}

\* The rewrites that are running: started by RewriteAOF and not finished.
Rewriting == {c \in Conns : bg[c].pc # "idle"}

\* C30: at most one AOF rewrite runs at a time: when two RewriteAOF calls
\* race, at most one starts a rewrite and the other returns the error
\* "aof rewrite in progress".
C30_OneRewriteAtATime == Cardinality(Rewriting) <= 1

\* Both RewriteAOF calls returned nil and both rewrites have called
\* StartRewriteAOF.
C30_TwoRewritesStarted ==
    \A c \in Conns :
        /\ bg[c].res = "nil"
        /\ bg[c].pc \notin {"idle", "RewriteLog"}

\* The snapshots that are running: started by TakeSnapshot and not finished.
Snapshotting == {c \in Copiers : bg[c].pc # "idle"}

\* C31: at most one snapshot runs at a time: when TakeSnapshot calls race,
\* at most one starts a snapshot and the others return the error
\* "snapshot already in progress".
C31_OneSnapshotAtATime == Cardinality(Snapshotting) <= 1

\* Two TakeSnapshot calls returned nil and both snapshots have called
\* StartSnapshot.
C31_TwoSnapshotsStarted ==
    \E c, d \in Copiers :
        /\ c # d
        /\ bg[c].res = "nil" /\ bg[d].res = "nil"
        /\ {bg[c].pc, bg[d].pc} \cap {"idle", "TakeSnapshot", "StartSnapshot"}
               = {}

\* C32: for every sequence of RESP command arrays passed to Write, those
\* with an empty bulk-string argument included, a following Restore of the
\* whole log hands handleCommand exactly those commands: as many of them,
\* in the same order, each with the same arguments.
C32_RestoreHandsWhatWasWritten ==
    RestoreReturned /\ ~cut =>
        /\ Len(calls) = Len(written)
        /\ \A i \in 1..Len(calls) :
              Decode(calls[i].command) = Decode(written[i])

\* Restore has returned from a whole log of one record, an HSET with an
\* empty bulk string, and handleCommand was called more than once.
C32_RecordSplitAtEmptyArgument ==
    /\ RestoreReturned /\ ~cut
    /\ Len(written) = 1
    /\ ~Decode(written[1]).err
    /\ Decode(written[1]).cmd[1] = hset
    /\ \E j \in 2..Len(Decode(written[1]).cmd) :
          Decode(written[1]).cmd[j] = <<>>
    /\ Len(calls) > 1

\* C33: in every reachable state every key of the TTL index has a lock
\* entry, whatever create, set-expiry, remove-expiry, eviction and restore
\* steps were taken.
C33_TTLIndexWithinKeyspace ==
    \A k \in Keys : keyExpiry[k].has => KeyExists(k)

\* Every call has returned, and a key without a lock entry is in the TTL
\* index.
C33_LastingTTLOfMissingKey ==
    /\ ~fatal
    /\ \A t \in Threads : th[t].pc = "done"
    /\ \E k \in Keys : keyExpiry[k].has /\ ~KeyExists(k)

\* The keys in the cache of the configured policy.
CachedKeys ==
    IF config.policy \in LFUPolicies
    THEN {k \in Keys : lfuCache.cache[k] > 0}
    ELSE {lruCache.cache[i] : i \in 1..Len(lruCache.cache)}

\* No get, set, set-expiry or remove-expiry operation is under way.
BetweenOperations == \A t \in Threads : th[t].pc \in {"start", "done"}

\* C34: with max_memory > 0, after any sequence of get, set, set-expiry
\* and remove-expiry operations the keys in the eviction cache are the keys
\* of the keyspace under allkeys-lfu and allkeys-lru, and the keys that
\* have a TTL under volatile-lfu and volatile-lru.
C34_CacheHoldsThePolicysKeys ==
    config.maxMemory /\ BetweenOperations /\ ~fatal =>
        /\ config.policy \in {"allkeys-lfu", "allkeys-lru"}
              => CachedKeys = ExistingKeys
        /\ config.policy \in {"volatile-lfu", "volatile-lru"}
              => CachedKeys = TTLKeys

\* PERSIST has returned under an allkeys policy, no other operation has
\* begun, and its key, still in the keyspace, is not in the cache.
C34_PersistedKeyOutOfCache ==
    /\ config.maxMemory /\ ~fatal
    /\ config.policy \in {"allkeys-lfu", "allkeys-lru"}
    /\ th["t1"].pc = "done" /\ th["t1"].cmd.op = "persist"
    /\ th["t2"].pc = "start"
    /\ th["t1"].cmd.dst \in ExistingKeys \ CachedKeys

\* The bytes of the chunks in the order they were written.
RECURSIVE Concatenation(_)
Concatenation(chunks) ==
    IF chunks = <<>> THEN <<>>
    ELSE Head(chunks) \o Concatenation(Tail(chunks))

\* C35: for a reply longer than 1024 bytes, if every write to the
\* connection succeeds in full, the chunks written make up the reply when
\* put end to end, each chunk is at most 1024 bytes, and no byte is written
\* twice or left out.
C35_ChunksMakeUpTheReply ==
    reply.pc = "done" /\ reply.full /\ Len(reply.res) > 1024 =>
        /\ Concatenation(reply.chunks) = reply.res
        /\ \A i \in 1..Len(reply.chunks) : Len(reply.chunks[i]) <= 1024

\* A reply of one byte more than two chunks has been written in full, in
\* three chunks.
C35_ReplyWrittenInChunks ==
    /\ reply.pc = "done" /\ reply.full
    /\ Len(reply.res) = 2 * 1024 + 1
    /\ Len(reply.chunks) = 3

\* The power of 1024 a unit stands for in either letter case, 0 for what
\* is no unit.
UnitExponent(u) ==
    IF Len(u) # 2 \/ u[2] \notin {"b", "B"} THEN 0
    ELSE CASE u[1] \in {"k", "K"} -> 1 [] u[1] \in {"m", "M"} -> 2
           [] u[1] \in {"g", "G"} -> 3 [] u[1] \in {"t", "T"} -> 4
           [] u[1] \in {"p", "P"} -> 5 [] OTHER -> 0

\* C36: ParseMemory of <n><unit> with a non-negative integer n whose
\* decimal form fits 64 bits returns n * 1024^k bytes, not wrapped around,
\* for the units kb, mb, gb, tb, pb (k = 1..5) in any letter case, and an
\* error for any other unit.
C36_ParseMemoryMultiplies ==
    util.fn = "ParseMemory" /\ util.done /\ Len(util.arg) > 2 =>
        LET n == SubSeq(util.arg, 1, Len(util.arg) - 2)
            u == SubSeq(util.arg, Len(util.arg) - 1, Len(util.arg))
        IN  AllDigits(n) /\ Len(DecimalLimbs(n, <<>>)) <= 4 =>
               IF UnitExponent(u) = 0 THEN util.err
               ELSE /\ ~util.err
                    /\ Trim(util.val)
                          = Times1024(DecimalLimbs(n, <<>>), UnitExponent(u))

\* ParseMemory has returned without error for a number below 2^63 and a
\* unit it knows, and what it returned is not the product.
C36_ProductWrapped ==
    /\ util.fn = "ParseMemory" /\ util.done /\ ~util.err
    /\ util.kind = "uint64"
    /\ LET n == SubSeq(util.arg, 1, Len(util.arg) - 2)
           u == SubSeq(util.arg, Len(util.arg) - 1, Len(util.arg))
       IN  /\ AllDigits(n)
           /\ BelowTwo63(DecimalLimbs(n, <<>>))
           /\ u = <<"k", "b">>
           /\ Trim(util.val) # Times1024(DecimalLimbs(n, <<>>), 1)

\* An optional sign and decimal digits.
Base10Integer(tok) ==
    LET digits == IF tok # <<>> /\ Head(tok) \in {"+", "-"} THEN Tail(tok)
                  ELSE tok
    IN  digits # <<>> /\ AllDigits(digits)

\* The token is a decimal floating-point number that a double holds as a
\* finite value: below 10^308, or with 309 digits before the point and
\* below the largest double (for mantissas of up to 17 digits).
FiniteDouble(tok) ==
    LET n == ScanFloat(tok)
        d == StripZeros(n.digits)
        places == Len(d) + n.scale
    IN  /\ ~n.err /\ ~n.inf
        /\ \/ d = <<"0">>
           \/ places < 309
           \/ /\ places = 309
              /\ Len(d) <= 17
              /\ Greater(<<"1", "7", "9", "7", "6", "9", "3", "1", "3", "4",
                           "8", "6", "2", "3", "1", "5", "8">>,
                         d \o Zeros(17 - Len(d)))

\* C37: AdaptType returns an integer exactly for the tokens that are
\* base-10 integers fitting 64 bits, a float for the other tokens that
\* parse as a finite double and for the integer tokens that overflow 64
\* bits, and the unchanged string for every other token.
C37_AdaptTypeKinds ==
    util.fn = "AdaptType" /\ util.done =>
        IF Base10Integer(util.arg) /\ ~ParseInt(util.arg).err
        THEN util.kind = "int"
        ELSE IF FiniteDouble(util.arg)
        THEN util.kind = "float"
        ELSE util.kind = "string" /\ util.val = util.arg

\* AdaptType has returned an integer for the token 1.0.
C37_IntegerForFloatToken ==
    /\ util.fn = "AdaptType" /\ util.done
    /\ util.arg = <<"1", ".", "0">>
    /\ util.kind = "int"
    /\ util.val = <<"1">>

\* Both connections ran SADD on one key with no memory limit, both have
\* returned their count, and the set at the key is one that a SADD made:
\* the key was absent when they started.
BothAddedToAbsentKey ==
    /\ config = NoLimit
    /\ \A t \in Threads :
          th[t].pc = "done" /\ th[t].cmd.op = "sadd" /\ th[t].res = "ok"
    /\ th["t1"].cmd.dst = th["t2"].cmd.dst
    /\ store[th["t1"].cmd.dst].obj \in Threads

\* C38: two SADD commands racing on the same absent key both take effect:
\* after both have returned, the set stored at the key contains the union
\* of the members of both commands.
C38_RacingAddsBothTakeEffect ==
    BothAddedToAbsentKey =>
        LET v == store[th["t1"].cmd.dst]
        IN  /\ v.present /\ v.isSet
            /\ th["t1"].cmd.mem \cup th["t2"].cmd.mem \subseteq v.members

\* Both SADDs have returned and the set holds the members of one of them
\* only.
C38_OneAddLost ==
    /\ BothAddedToAbsentKey
    /\ th["t1"].cmd.mem # th["t2"].cmd.mem
    /\ \E t \in Threads : store[th["t1"].cmd.dst].members = th[t].cmd.mem

\* C39: in every reachable state, every key that has a value in the store
\* has a lock entry: no value is written for a key whose CreateKeyAndLock
\* or KeyLock call failed, or whose lock entry eviction has removed.
C39_StoredKeysHaveLocks ==
    \A k \in Keys : store[k].present => KeyExists(k)

\* Every command has returned and a key holds a value without a lock
\* entry.
C39_ValueLeftWithoutLock ==
    /\ \A t \in Threads : th[t].pc = "done"
    /\ \E k \in Keys : store[k].present /\ ~KeyExists(k)

\* C40: an AUTH attempt that fails (unknown user name, disabled user, or
\* no matching password) leaves the connection's associated user and its
\* authenticated flag exactly as they were before the attempt.
C40_FailedAuthChangesNothing ==
    [][auth' # auth /\ auth'.err # "nil"
          => aclConnections'[auth'.conn] = aclConnections[auth'.conn]]_vars

\* A connection that is authenticated as one user has had an AUTH for
\* another username refused, for one of the three reasons, and is still
\* authenticated as the first user.
C40_RefusedAfterAuthenticated ==
    /\ auth.err \in {"no user with username", "user is disabled",
                      "could not authenticate user"}
    /\ auth.conn \in authed
    /\ aclConnections[auth.conn].Authenticated
    /\ aclConnections[auth.conn].User # auth.name

====
